---- MODULE Spec2Model ----
(***************************************************************************)
(* PyrooFit: the PDF composition and parameter-management engine.          *)
(*                                                                         *)
(* Python objects live in two heaps: `heap` holds the native variables     *)
(* (ROOT.RooRealVar), `pdfs` the PDF objects.  References are indices into *)
(* these heaps (0 is None), so that sharing and aliasing are visible.      *)
(* Python strings are sequences of one-character strings, so that          *)
(* concatenation ('n_' + name) and the substring test ('n_' in p) are      *)
(* computed as Python computes them.  Python dicts (AttrDict) are          *)
(* insertion-ordered sequences of [k, v] entries.                          *)
(* Numbers are integers: every input list is drawn with lwb + upb even, so *)
(* that the midpoint (lwb + upb)/2. is exact on the integer grid.          *)
(*                                                                         *)
(* Four specifications share the state:                                    *)
(*   Spec      constructs shapes and composites (Sum, Product,             *)
(*             Convolution, SimFit) from nothing;                          *)
(*   SpecSum   grows an empty Sum with add and constrain_norm;             *)
(*   SpecPar   fits, narrows and fixes two shapes that share a variable;   *)
(*   SpecConv  fits a shape and runs check_convergence on it, the Fit      *)
(*             Engine free to report any value and error after each fit.   *)
(***************************************************************************)
EXTENDS Integers, Sequences, FiniteSets, TLC

VARIABLES heap,   \* native variables: sequence of RooRealVar records
          pdfs,   \* PDF objects: sequence of PDF records
          cc,     \* the running check_convergence activation
          last    \* outcome of the last public call: what it returned or raised

vars == <<heap, pdfs, cc, last>>

(***************************************************************************)
(* Bounds of the model                                                     *)
(***************************************************************************)
MaxPdfs == 3      \* PDF objects constructed in one behaviour
MaxRefit == 2     \* largest n_refit a caller passes
MaxErr == 4       \* largest error the Fit Engine reports
MaxSigma == 2     \* largest sigma passed to narrow / constrain
HalfWidth == 1    \* callers declare variables on [0, 2*HalfWidth]
MaxComponents == 2  \* components added to one AddPdf by add()

(***************************************************************************)
(* Python values                                                           *)
(***************************************************************************)
PyNone == [t |-> "none", s |-> <<>>, n |-> 0]
PyStr(s) == [t |-> "str", s |-> s, n |-> 0]
PyNum(n) == [t |-> "num", s |-> <<>>, n |-> n]

NoError == "ok"

\* Python str: 'n_', '_', '_plus_' and the names used by the callers
N_ == <<"n", "_">>
Underscore == <<"_">>
Plus == <<"_", "p", "l", "u", "s", "_">>
S_mean == <<"m", "e", "a", "n">>
S_sigma == <<"s", "i", "g", "m", "a">>
S_n_sig == <<"n", "_", "s", "i", "g">>
S_mean_sig == <<"m", "e", "a", "n", "_", "s", "i", "g">>
S_x == <<"x">>
S_y == <<"y">>
S_a == <<"a">>
S_b == <<"b">>

\* sub in s  (Python substring test on str)
Contains(sub, s) ==
    \E i \in 0..(Len(s) - Len(sub)) :
        \A j \in 1..Len(sub) : s[i + j] = sub[j]

\* s.startswith(sub)
StartsWith(sub, s) ==
    /\ Len(sub) <= Len(s)
    /\ \A j \in 1..Len(sub) : s[j] = sub[j]

\* sep.join(names)
RECURSIVE Join(_, _)
Join(sep, names) ==
    IF names = <<>> THEN <<>>
    ELSE IF Len(names) = 1 THEN names[1]
    ELSE names[1] \o sep \o Join(sep, Tail(names))

(***************************************************************************)
(* AttrDict: an insertion-ordered dict, a sequence of [k, v] entries       *)
(***************************************************************************)
AttrDict == <<>>

Keys(d) == [i \in 1..Len(d) |-> d[i].k]
KeySet(d) == {d[i].k : i \in 1..Len(d)}
Values(d) == {d[i].v : i \in 1..Len(d)}
Has(d, key) == \E i \in 1..Len(d) : d[i].k = key
Get(d, key) == d[CHOOSE i \in 1..Len(d) : d[i].k = key].v

\* d[key] = value: an existing key keeps its place, a new key is appended
SetItem(d, key, value) ==
    IF Has(d, key)
    THEN [i \in 1..Len(d) |-> IF d[i].k = key THEN [k |-> key, v |-> value] ELSE d[i]]
    ELSE Append(d, [k |-> key, v |-> value])

\* d.update(other)
RECURSIVE Update(_, _)
Update(d, other) ==
    IF other = <<>> THEN d
    ELSE Update(SetItem(d, other[1].k, other[1].v), Tail(other))

(***************************************************************************)
(* Native variables (ROOT.RooRealVar) and the Variable Resolver            *)
(***************************************************************************)
\* What a caller hands to the resolver: an already-bound variable (a heap
\* reference), a list, a tuple, a Var descriptor or nothing.
SpecVar(i) == [t |-> "RooRealVar", id |-> i, items |-> <<>>]
SpecList(items) == [t |-> "list", id |-> 0, items |-> items]
SpecTuple(items) == [t |-> "tuple", id |-> 0, items |-> items]
SpecDescriptor == [t |-> "Var", id |-> 0, items |-> <<>>]

Raise(h, exc) == [heap |-> h, ret |-> 0, raised |-> exc]

\* ROOT.RooRealVar(name, title, val, lwb, upb, unit): the binding converts
\* name to a C string and val, lwb, upb to doubles; None converts to neither.
\* A fresh variable reports error 0 and is floating.
RooRealVar(h, name, val, lwb, upb) ==
    IF name.t # "str" \/ val.t # "num" \/ lwb.t # "num" \/ upb.t # "num"
    THEN Raise(h, "TypeError")
    ELSE [heap |-> Append(h, [name |-> name.s, val |-> val.n,
                              min |-> lwb.n, max |-> upb.n,
                              err |-> 0, errLo |-> 0, errHi |-> 0,
                              constant |-> FALSE]),
          ret |-> Len(h) + 1,
          raised |-> NoError]

\* (lwb + upb)/2. on the integer grid (the callers' sums are even)
Midpoint(lwb, upb) == PyNum((lwb.n + upb.n) \div 2)

\* a resolver that binds a variable of its own to the given name when it is
\* handed one that exists
create_roo_variable_rebinding(h, var, name, lwb, upb, val) ==
    IF var.t = "RooRealVar"
    THEN [heap |-> Append(h, [h[var.id] EXCEPT
                                !.name = IF name.t = "str" THEN name.s ELSE @]),
          ret |-> Len(h) + 1, raised |-> NoError]
    ELSE IF var.t = "list" THEN
        LET items == var.items IN
        IF Len(items) = 2 THEN
            IF items[1].t # "num" \/ items[2].t # "num" THEN Raise(h, "TypeError")
            ELSE RooRealVar(h, name, Midpoint(items[1], items[2]), items[1], items[2])
        ELSE IF Len(items) = 3 THEN
            IF items[2].t # "num" \/ items[3].t # "num" THEN Raise(h, "TypeError")
            ELSE RooRealVar(h, items[1], Midpoint(items[2], items[3]), items[2], items[3])
        ELSE IF Len(items) = 4 THEN
            RooRealVar(h, items[1], items[2], items[3], items[4])
        ELSE Raise(h, "AssertionError")
    ELSE IF var.t = "Var" THEN Raise(h, "AttributeError")   \* Var has no get()
    ELSE RooRealVar(h, name, val, lwb, upb)

create_roo_variable(h, var, name, lwb, upb, val) ==
    IF var.t = "RooRealVar" THEN [heap |-> h, ret |-> var.id, raised |-> NoError]
    ELSE IF var.t = "list" THEN
        LET items == var.items IN
        IF Len(items) = 2 THEN
            IF items[1].t # "num" \/ items[2].t # "num" THEN Raise(h, "TypeError")
            ELSE RooRealVar(h, name, Midpoint(items[1], items[2]), items[1], items[2])
        ELSE IF Len(items) = 3 THEN
            IF items[2].t # "num" \/ items[3].t # "num" THEN Raise(h, "TypeError")
            ELSE RooRealVar(h, items[1], Midpoint(items[2], items[3]), items[2], items[3])
        ELSE IF Len(items) = 4 THEN
            RooRealVar(h, items[1], items[2], items[3], items[4])
        ELSE Raise(h, "AssertionError")
    ELSE IF var.t = "Var" THEN Raise(h, "AttributeError")   \* Var has no get()
    ELSE RooRealVar(h, name, val, lwb, upb)

(***************************************************************************)
(* PDF base class                                                          *)
(***************************************************************************)
\* last_data: <<>> is None, <<vars>> a dataset with a column per variable in vars
NoData == <<>>

NoRooPdf == [cls |-> "None", pdfs |-> <<>>, norms |-> <<>>, servers |-> {}]

\* The attributes PDF.__init__ sets before it calls self.init_pdf().
\* pdfs, first_pdf, norms, external_norms (_external_norms), sim_pdfs,
\* pdf_names, pdf1, pdf2 are the composites' own attributes, which their
\* constructors set before they call PDF.__init__.
PDF_init(cls, name) ==
    [cls |-> cls, name |-> name,
     observables |-> AttrDict, parameters |-> AttrDict, parameter_names |-> AttrDict,
     roo_pdf |-> NoRooPdf, last_data |-> NoData, use_minos |-> FALSE,
     use_extended |-> FALSE,
     pdfs |-> AttrDict, first_pdf |-> PyNone, norms |-> AttrDict,
     external_norms |-> AttrDict,
     sim_pdfs |-> <<>>, pdf_names |-> <<>>, pdf1 |-> 0, pdf2 |-> 0]

\* ... and after init_pdf() has returned
PDF_init_tail(self) ==
    [self EXCEPT !.last_data = NoData, !.use_minos = FALSE, !.use_extended = FALSE]

PdfRaise(h, self, exc) == [heap |-> h, self |-> self, ret |-> 0, raised |-> exc]

add_parameter(h, self, param_var, param_name, final_name) ==
    LET name == IF final_name.t = "none"
                THEN PyStr(self.name \o Underscore \o param_name)
                ELSE final_name
        r == create_roo_variable(h, param_var, name, PyNone, PyNone, PyNone)
    IN  IF r.raised # NoError THEN PdfRaise(h, self, r.raised)
        ELSE [heap |-> r.heap,
              self |-> [self EXCEPT
                          !.parameters = SetItem(@, param_name, r.ret),
                          !.parameter_names = SetItem(@, param_name, name.s)],
              ret |-> r.ret,
              raised |-> NoError]

\* observable_var[0] is looked at first, for the warning
add_observable(h, self, observable_var) ==
    LET r == create_roo_variable(h, observable_var, PyNone, PyNone, PyNone, PyNone)
    IN  IF observable_var.t \in {"list", "tuple"} /\ observable_var.items = <<>>
        THEN PdfRaise(h, self, "IndexError")
        ELSE IF r.raised # NoError THEN PdfRaise(h, self, r.raised)
        ELSE [heap |-> r.heap,
              self |-> [self EXCEPT
                          !.observables = SetItem(@, r.heap[r.ret].name, r.ret)],
              ret |-> r.ret,
              raised |-> NoError]

\* get_observable(): the first value of self.observables
get_observable(self) == self.observables[1].v

\* the add_parameter calls of a shape class, in order
RECURSIVE add_parameters(_, _, _)
add_parameters(h, self, params) ==
    IF params = <<>> THEN [heap |-> h, self |-> self, ret |-> 0, raised |-> NoError]
    ELSE LET r == add_parameter(h, self, params[1].var, params[1].name, PyNone)
         IN  IF r.raised # NoError THEN r
             ELSE add_parameters(r.heap, r.self, Tail(params))

\* A shape class as the module docstring of pdf.py writes it: the base
\* constructor, one observable, the parameters, then the native PDF over them.
MyPDF(h, x, params, name) ==
    LET self0 == PDF_init_tail(PDF_init("PDF", name))
        r1 == add_observable(h, self0, x)
        r2 == add_parameters(r1.heap, r1.self, params)
    IN  IF r1.raised # NoError THEN PdfRaise(h, self0, r1.raised)
        ELSE IF r2.raised # NoError THEN PdfRaise(h, self0, r2.raised)
        ELSE [heap |-> r2.heap,
              self |-> [r2.self EXCEPT
                          !.roo_pdf = [cls |-> "RooAbsPdf", pdfs |-> <<>>, norms |-> <<>>,
                                       servers |-> {r1.ret} \cup Values(r2.self.parameters)]],
              ret |-> 0,
              raised |-> NoError]

(***************************************************************************)
(* Composite PDFs                                                          *)
(*                                                                         *)
(* A native composite (roo_pdf) records its class, the component PDFs it   *)
(* was built from, the yields paired with them, and `servers`: every       *)
(* native variable in its expression graph, i.e. every variable that takes *)
(* part in a fit of it.                                                    *)
(***************************************************************************)
Range(seq) == {seq[i] : i \in 1..Len(seq)}
Names(ps, ids) == [i \in 1..Len(ids) |-> ps[ids[i]].name]
Servers(ps, ids) == UNION {ps[i].roo_pdf.servers : i \in Range(ids)}

\* for pdf in pdfs: self.pdfs[pdf.name] = pdf
RECURSIVE PdfsByName(_, _, _)
PdfsByName(ps, d, ids) ==
    IF ids = <<>> THEN d
    ELSE PdfsByName(ps, SetItem(d, ps[ids[1]].name, ids[1]), Tail(ids))

\* ---- ProdPdf ----
RECURSIVE ProdPdf_loop(_, _, _)
ProdPdf_loop(ps, items, acc) ==
    IF items = <<>> THEN acc
    ELSE LET pdf == ps[items[1].v]
             merged == [acc EXCEPT !.observables = Update(@, pdf.observables),
                                   !.parameters = Update(@, pdf.parameters)]
         IN  ProdPdf_loop(ps, Tail(items),
                 IF pdf.roo_pdf.cls = "None" THEN merged
                 ELSE [merged EXCEPT !.argset_roo_pdf = Append(@, items[1].v)])

ProdPdf_init_pdf(ps, self) ==
    LET acc == ProdPdf_loop(ps, self.pdfs,
                   [observables |-> AttrDict, parameters |-> AttrDict,
                    argset_roo_pdf |-> <<>>])
    IN  [self EXCEPT
            !.observables = acc.observables,
            !.parameters = acc.parameters,
            !.roo_pdf = [cls |-> "RooProdPdf", pdfs |-> acc.argset_roo_pdf,
                         norms |-> <<>>, servers |-> Servers(ps, acc.argset_roo_pdf)]]

ProdPdf(ps, ids, name) ==
    LET self0 == [PDF_init("ProdPdf",
                           IF name.t = "none" THEN Join(Plus, Names(ps, ids)) ELSE name.s)
                    EXCEPT !.pdfs = PdfsByName(ps, AttrDict, ids)]
    IN  [PDF_init_tail(ProdPdf_init_pdf(ps, self0)) EXCEPT !.use_extended = FALSE]

\* ProdPdf.add as AddPdf.add would do it: a yield for the added component
ProdPdf_add_with_yield(ps, self, pdf, name) ==
    LET key == IF name.t = "none" THEN ps[pdf].name ELSE name.s
        built == ProdPdf_init_pdf(ps, [self EXCEPT !.pdfs = SetItem(@, key, pdf)])
    IN  [built EXCEPT !.norms = SetItem(@, key, 0),
                      !.parameters = SetItem(@, N_ \o key, 0),
                      !.use_extended = TRUE]

\* ProdPdf.add(pdf, name): the product is rebuilt over the extended self.pdfs
ProdPdf_add(ps, self, pdf, name) ==
    LET key == IF name.t = "none" THEN ps[pdf].name ELSE name.s
    IN  ProdPdf_init_pdf(ps, [self EXCEPT !.pdfs = SetItem(@, key, pdf)])

\* ---- Convolution ----
S_RooFFTConvPdf == <<"R", "o", "o", "F", "F", "T", "C", "o", "n", "v", "P", "d", "f">>

\* a constructor without the check of the number of observables:
\* get_observable() asserts that there is one and returns the first
Convolution_unchecked(h, ps, p1, p2, name, fft) ==
    LET self0 == [PDF_init_tail(PDF_init("Convolution", name))
                    EXCEPT !.pdf1 = p1, !.pdf2 = p2]
        self1 == [self0 EXCEPT
                    !.observables = Update(Update(AttrDict, ps[p1].observables),
                                           ps[p2].observables),
                    !.parameters = Update(Update(AttrDict, ps[p1].parameters),
                                          ps[p2].parameters)]
    IN  IF Len(self1.observables) = 0
        THEN PdfRaise(h, self1, "AssertionError")
        ELSE [heap |-> h,
              self |-> [self1 EXCEPT
                          !.roo_pdf = [cls |-> IF fft THEN "RooFFTConvPdf" ELSE "RooNumConvPdf",
                                       pdfs |-> <<p1, p2>>, norms |-> <<>>,
                                       servers |-> {self1.observables[1].v}
                                                   \cup Servers(ps, <<p1, p2>>)]],
              ret |-> 0,
              raised |-> NoError]

Convolution(h, ps, p1, p2, name, fft) ==
    LET self0 == [PDF_init_tail(PDF_init("Convolution", name))
                    EXCEPT !.pdf1 = p1, !.pdf2 = p2]
        self1 == [self0 EXCEPT
                    !.observables = Update(Update(AttrDict, ps[p1].observables),
                                           ps[p2].observables),
                    !.parameters = Update(Update(AttrDict, ps[p1].parameters),
                                          ps[p2].parameters)]
    IN  IF Len(self1.observables) # 1
        THEN PdfRaise(h, self1, "TypeError")   \* NotImplemented is not callable
        ELSE [heap |-> h,
              self |-> [self1 EXCEPT
                          !.roo_pdf = [cls |-> IF fft THEN "RooFFTConvPdf" ELSE "RooNumConvPdf",
                                       pdfs |-> <<p1, p2>>, norms |-> <<>>,
                                       servers |-> {get_observable(self1)}
                                                   \cup Servers(ps, <<p1, p2>>)]],
              ret |-> 0,
              raised |-> NoError]

\* ---- SimFit ----
S_SimFit == <<"S", "i", "m", "F", "i", "t">>

RECURSIVE SimFit_loop(_, _, _)
SimFit_loop(ps, ids, self) ==
    IF ids = <<>> THEN self
    ELSE LET pdf == ps[ids[1]]
         IN  SimFit_loop(ps, Tail(ids),
                 [self EXCEPT !.sim_pdfs = Append(@, ids[1]),
                              !.pdf_names = Append(@, pdf.name),
                              !.observables = Update(@, pdf.observables),
                              !.parameters = Update(@, pdf.parameters)])

\* RooSimultaneous.addPdf(pdf.roo_pdf, name) for pdf, name in zip(...): an
\* index state holds one PDF, so the first PDF added under a name stays.
SimFit_addPdf(self) ==
    SelectSeq([i \in 1..Len(self.sim_pdfs) |->
                  IF \E j \in 1..(i - 1) : self.pdf_names[j] = self.pdf_names[i]
                  THEN 0 ELSE self.sim_pdfs[i]],
              LAMBDA id : id # 0)

\* a SimFit that keeps a parameter map of its own
SimFit_without_parameters(ps, ids) ==
    LET self1 == [SimFit_loop(ps, ids, PDF_init_tail(PDF_init("SimFit", S_SimFit)))
                    EXCEPT !.parameters = AttrDict]
        added == SimFit_addPdf(self1)
    IN  [self1 EXCEPT
            !.roo_pdf = [cls |-> "RooSimultaneous", pdfs |-> added, norms |-> <<>>,
                         servers |-> Servers(ps, added)]]

SimFit(ps, ids) ==
    LET self1 == SimFit_loop(ps, ids, PDF_init_tail(PDF_init("SimFit", S_SimFit)))
        added == SimFit_addPdf(self1)
    IN  [self1 EXCEPT
            !.roo_pdf = [cls |-> "RooSimultaneous", pdfs |-> added, norms |-> <<>>,
                         servers |-> Servers(ps, added)]]

\* ---- data.py, SimFit.get_fit_data ----
\* def df2roo(df, observables=None, columns=None, name='data', weights=None,
\*            ownership=True, bins=None, norm_weights=True)
df2roo_parameters ==
    {"df", "observables", "columns", "name", "weights", "ownership", "bins", "norm_weights"}

\* df2roo(df, **kw): the rows of df in the columns observables names, as a
\* RooDataHist if bins is given; a keyword the signature lacks is a TypeError
df2roo(observables, kw, nbins) ==
    IF ~(kw \subseteq df2roo_parameters) THEN [data |-> NoData, raised |-> "TypeError"]
    ELSE [data |-> <<Values(observables), IF nbins THEN "RooDataHist" ELSE "RooDataSet">>,
          raised |-> NoError]

\* df2roo(df, observables=observables, weights=weights, nbins=nbins)
shared_keywords == {"observables", "weights", "nbins"}

\* df2roo(data, observables=observables, weights=weights, bins=nbins)
tuple_keywords == {"observables", "weights", "bins"}

\* one df2roo and one Import(name, roo_data) per PDF, in order
RECURSIVE SimFit_import(_, _, _, _, _, _)
SimFit_import(ps, ids, names, kw, nbins, imports) ==
    IF ids = <<>> THEN [imports |-> imports, raised |-> NoError]
    ELSE LET roo_data == df2roo(ps[ids[1]].observables, kw, nbins)
         IN  IF roo_data.raised # NoError
             THEN [imports |-> imports, raised |-> roo_data.raised]
             ELSE SimFit_import(ps, Tail(ids), Tail(names), kw, nbins,
                      Append(imports, [name |-> names[1], data |-> roo_data.data]))

\* for df_tuple in df: a tuple is (PDF..., data), written here as its PDFs
RECURSIVE SimFit_tuples(_, _, _, _)
SimFit_tuples(ps, tuples, nbins, imports) ==
    IF tuples = <<>> THEN [imports |-> imports, raised |-> NoError]
    ELSE IF Len(tuples[1]) + 1 <= 1 THEN [imports |-> imports, raised |-> "AssertionError"]
    ELSE LET r == SimFit_import(ps, tuples[1], Names(ps, tuples[1]), tuple_keywords,
                                nbins, imports)
         IN  IF r.raised # NoError THEN r
             ELSE SimFit_tuples(ps, Tail(tuples), nbins, r.imports)

\* SimFit.get_fit_data(df, nbins=nbins): RooDataSet('combinedData', ...,
\* Index(self.sample), *imports)
SimFit_get_fit_data(ps, self, df, nbins) ==
    IF df.list THEN SimFit_tuples(ps, df.tuples, nbins, <<>>)
    ELSE SimFit_import(ps, self.sim_pdfs, self.pdf_names, shared_keywords, nbins, <<>>)

\* ---- AddPdf ----
NormVal == 10
NormMin == 0
NormMax == 100000000
S_AddPdf == <<"A", "d", "d", "P", "d", "f">>

\* the automatic yield written as a list, which the resolver accepts
norm_var_list(pdf_name) ==
    SpecList(<<PyStr(N_ \o pdf_name), PyNum(NormVal), PyNum(NormMin), PyNum(NormMax)>>)

\* norm_var = ('n_'+pdf_name, 10, 0, 100000000): a tuple
norm_var(pdf_name) ==
    SpecTuple(<<PyStr(N_ \o pdf_name), PyNum(NormVal), PyNum(NormMin), PyNum(NormMax)>>)

\* the loop of AddPdf.init_pdf over self.pdfs.items(); st carries the heap,
\* self and the two native argument lists, and stops at the first exception
RECURSIVE AddPdf_loop(_, _, _)
AddPdf_loop(ps, items, st) ==
    IF items = <<>> \/ st.raised # NoError THEN st
    ELSE LET pdf_name == items[1].k
             pdf == ps[items[1].v]
             r == IF ~Has(st.self.external_norms, pdf_name)
                  THEN create_roo_variable(st.heap, norm_var(pdf_name),
                                           PyNone, PyNone, PyNone, PyNone)
                  ELSE [heap |-> st.heap, ret |-> Get(st.self.external_norms, pdf_name),
                        raised |-> NoError]
         IN  IF r.raised # NoError THEN [st EXCEPT !.raised = r.raised]
             ELSE AddPdf_loop(ps, Tail(items),
                    [heap |-> r.heap,
                     self |-> [st.self EXCEPT
                                 !.norms = SetItem(@, pdf_name, r.ret),
                                 !.parameters = Update(SetItem(@, N_ \o pdf_name, r.ret),
                                                       pdf.parameters),
                                 !.observables = Update(@, pdf.observables)],
                     argset_norm |-> Append(st.argset_norm, r.ret),
                     argset_roo_pdf |-> Append(st.argset_roo_pdf, items[1].v),
                     raised |-> NoError])

\* self.norms is never None, so the maps of an earlier init_pdf are kept
AddPdf_init_pdf(h, ps, self) ==
    LET st == AddPdf_loop(ps, self.pdfs,
                  [heap |-> h, self |-> self, argset_norm |-> <<>>,
                   argset_roo_pdf |-> <<>>, raised |-> NoError])
    IN  IF st.raised # NoError THEN PdfRaise(h, st.self, st.raised)
        ELSE [heap |-> st.heap,
              self |-> [st.self EXCEPT
                          !.roo_pdf = [cls |-> "RooAddPdf", pdfs |-> st.argset_roo_pdf,
                                       norms |-> st.argset_norm,
                                       servers |-> Servers(ps, st.argset_roo_pdf)
                                                   \cup Range(st.argset_norm)]],
              ret |-> 0,
              raised |-> NoError]

\* AddPdf(pdfs, name): pdfs is None (given = FALSE) or a list of PDFs
AddPdf(h, ps, given, ids, name) ==
    LET nm == IF name.t # "none" THEN name.s
              ELSE IF given THEN Join(Plus, Names(ps, ids)) ELSE S_AddPdf
        self0 == [PDF_init("AddPdf", nm) EXCEPT
                    !.pdfs = PdfsByName(ps, AttrDict, ids),
                    !.first_pdf = IF ids = <<>> THEN PyNone ELSE PyStr(ps[ids[1]].name)]
        r == AddPdf_init_pdf(h, ps, self0)
    IN  IF r.raised # NoError THEN r
        ELSE [r EXCEPT !.self = [PDF_init_tail(r.self) EXCEPT !.use_extended = TRUE]]

\* self.add(pdf, name=None); pdf is ps[id], renamed when a name is given
AddPdf_add(h, ps, self, id, name) ==
    LET nm == IF name.t = "none" THEN ps[id].name ELSE name.s
        ps1 == [ps EXCEPT ![id].name = nm]
        self1 == [self EXCEPT
                    !.first_pdf = IF @.t = "none" THEN PyStr(nm) ELSE @,
                    !.pdfs = SetItem(@, nm, id)]
        r == AddPdf_init_pdf(h, ps1, self1)
    IN  [heap |-> r.heap, self |-> r.self, pdfs |-> ps1, raised |-> r.raised]

\* self.constrain_norm(pdf, normalization), pdf given by name
constrain_norm(h, ps, self, pdf, normalization) ==
    IF ~Has(self.pdfs, pdf) THEN PdfRaise(h, self, "AssertionError")
    ELSE AddPdf_init_pdf(h, ps,
             [self EXCEPT !.external_norms = SetItem(@, pdf, normalization)])

(***************************************************************************)
(* Fitting and parameter editing                                           *)
(*                                                                         *)
(* An operation whose result depends on the Fit Engine or on random draws  *)
(* returns `heaps`, the set of heaps it can leave.                         *)
(***************************************************************************)
Abs(n) == IF n < 0 THEN -n ELSE n
Min(a, b) == IF a < b THEN a ELSE b

\* an optional list argument (only=None, exceptions=None)
NoneList == [given |-> FALSE, items |-> <<>>]
SomeList(items) == [given |-> TRUE, items |-> items]

\* get_fit_data(df): the columns of df that self.observables names
get_fit_data(self) == <<Values(self.observables)>>

\* The errors a fit can report: e is getError(); the magnitude l of
\* getErrorLo() is e unless Minos stored its own value, a smaller one here.
ErrorOutcomes(minos) ==
    {el \in (0..MaxErr) \X (0..MaxErr) : el[2] = el[1] \/ (minos /\ el[2] = el[1] - 1)}

\* what the Fit Engine can leave in one floating variable
FitOutcomes(var, minos) ==
    {[var EXCEPT !.val = v, !.err = el[1], !.errLo = -el[2], !.errHi = el[1]] :
        v \in var.min..var.max, el \in ErrorOutcomes(minos)}

\* every variable of the native PDF that is no column of the data and is
\* not constant is floated by roo_pdf.fitTo(data_roo, ...)
Floating(h, self, data_roo) ==
    {i \in self.roo_pdf.servers : i \notin data_roo[1] /\ ~h[i].constant}

RECURSIVE fitTo(_, _, _)
fitTo(heaps, floating, minos) ==
    IF floating = {} THEN heaps
    ELSE LET i == CHOOSE j \in floating : TRUE
         IN  fitTo(UNION {{[h EXCEPT ![i] = o] : o \in FitOutcomes(h[i], minos)} : h \in heaps},
                   floating \ {i}, minos)

\* _fit(data_roo); the native call rejects None
_fit(h, self, data_roo) ==
    IF data_roo = NoData THEN [heaps |-> {h}, raised |-> "TypeError"]
    ELSE [heaps |-> fitTo({h}, Floating(h, self, data_roo), self.use_minos),
          raised |-> NoError]

\* fit(df)
fit(h, self) ==
    LET self1 == [self EXCEPT !.last_data = get_fit_data(self)]
        r == _fit(h, self1, self1.last_data)
    IN  [heaps |-> r.heaps, self |-> self1, raised |-> r.raised]

\* a setter that leaves the flag alone; C6 must not hold of it
setConstant_dropped(var, constant) == var

\* RooRealVar setters
setConstant(var, constant) == [var EXCEPT !.constant = constant]
setMax(var, value) == [var EXCEPT !.max = value]
setMin(var, value) == [var EXCEPT !.min = value]

\* fix(constant): for m in self.parameters
RECURSIVE fix_loop(_, _, _)
fix_loop(h, params, constant) ==
    IF params = <<>> THEN h
    ELSE fix_loop([h EXCEPT ![params[1].v] = setConstant(@, constant)],
                  Tail(params), constant)

fix(h, self, constant) == fix_loop(h, self.parameters, constant)

\* an upper bound that is not held at the old one; C5 must not hold of it
new_h_unclamped(v, sigma, e, h) == v + sigma * e

\* narrow(sigma)
new_h(v, sigma, e, h) == IF v + sigma * e < h THEN v + sigma * e ELSE h
new_l(v, sigma, e, l) == IF v - sigma * e > l THEN v - sigma * e ELSE l

RECURSIVE narrow_loop(_, _, _)
narrow_loop(h, params, sigma) ==
    IF params = <<>> THEN h
    ELSE LET var == h[params[1].v]
             nh == new_h(var.val, sigma, var.err, var.max)
             nl == new_l(var.val, sigma, var.err, var.min)
         IN  narrow_loop([h EXCEPT ![params[1].v] = setMin(setMax(var, nh), nl)],
                         Tail(params), sigma)

narrow(h, self, sigma) == narrow_loop(h, self.parameters, sigma)

\* constrain(sigma): for m in self.parameters
RECURSIVE constrain_loop(_, _, _)
constrain_loop(h, params, sigma) ==
    IF params = <<>> THEN h
    ELSE LET var == h[params[1].v]
             cent == var.val
             err == var.err
         IN  constrain_loop(
                 [h EXCEPT ![params[1].v] = setMax(setMin(var, cent - sigma * err),
                                                   cent + sigma * err)],
                 Tail(params), sigma)

constrain(h, self, sigma) == constrain_loop(h, self.parameters, sigma)

\* a blur that is kept without the test against the bounds
new_values_unchecked(min_, max_) == (min_ - 1)..(max_ + 1)

\* val + to_add if min_ < val + to_add < max_, else random.uniform(min_, max_)
new_values(min_, max_) == min_..max_

\* randomize_pdf(exceptions, only): the blurred value lies strictly inside
\* the bounds, the uniform draw anywhere in them
RECURSIVE randomize_loop(_, _, _, _)
randomize_loop(heaps, self, params, exceptions) ==
    IF params = <<>> THEN [heaps |-> heaps, raised |-> NoError]
    ELSE LET m == params[1]
         IN  IF exceptions.given /\ m \in Range(exceptions.items)
             THEN randomize_loop(heaps, self, Tail(params), exceptions)
             ELSE IF ~Has(self.parameters, m)
             THEN [heaps |-> heaps, raised |-> "KeyError"]
             ELSE LET i == Get(self.parameters, m)
                  IN  randomize_loop(
                          UNION {{[h EXCEPT ![i].val = v] : v \in new_values(h[i].min, h[i].max)} :
                                 h \in heaps},
                          self, Tail(params), exceptions)

randomize_pdf(h, self, exceptions, only) ==
    randomize_loop({h}, self,
                   IF only.given THEN only.items ELSE Keys(self.parameters),
                   exceptions)

\* refit(randomize, exceptions, only)
refit(h, self, randomize, exceptions, only) ==
    LET r == IF randomize THEN randomize_pdf(h, self, exceptions, only)
             ELSE [heaps |-> {h}, raised |-> NoError]
    IN  IF r.raised # NoError THEN r
        ELSE LET fits == {_fit(h1, self, self.last_data) : h1 \in r.heaps}
             IN  [heaps |-> UNION {f.heaps : f \in fits},
                  raised |-> IF \E f \in fits : f.raised # NoError
                             THEN "TypeError" ELSE NoError]

(***************************************************************************)
(* check_convergence                                                       *)
(*                                                                         *)
(* One activation scans and then returns or refits and calls itself; the   *)
(* nested activation is the next step of the same call.                    *)
(***************************************************************************)
\* the arguments of one activation
Args(low, high, n_refit, only, exceptions, assym, ignore_n) ==
    [err_lim_low |-> low, err_lim_high |-> high, n_refit |-> n_refit,
     only |-> only, exceptions |-> exceptions, assym |-> assym, ignore_n |-> ignore_n]

\* the parameter is left out of the scan
Skipped(p, a) ==
    \/ a.exceptions.given /\ p \in Range(a.exceptions.items)
    \/ a.ignore_n /\ Contains(N_, p)

\* p_err
p_err(var, assym) ==
    IF assym THEN Min(Abs(var.errHi), Abs(var.errLo)) ELSE var.err

\* a scan that accepts an error equal to a limit; C3 as amended must not hold of it
Offending_closed(e, low, high) == ~(low <= e /\ e <= high)

\* not err_lim_low < p_err < err_lim_high
Offending(e, low, high) == ~(low < e /\ e < high)

\* the for loop: the suspect, <<>> for None
RECURSIVE scan(_, _, _, _)
scan(h, self, params, a) ==
    IF params = <<>> THEN <<>>
    ELSE IF Skipped(params[1], a) THEN scan(h, self, Tail(params), a)
    ELSE IF Offending(p_err(h[Get(self.parameters, params[1])], a.assym),
                      a.err_lim_low, a.err_lim_high)
    THEN params[1]
    ELSE scan(h, self, Tail(params), a)

\* params = only, or the keys of self.parameters
ScanList(self, a) == IF a.only.given THEN a.only.items ELSE Keys(self.parameters)

\* a loop that gives up one retry early; C2 must not hold of it
Exhausted_one_early(n_refit) == n_refit <= 1

\* if n_refit == 0: return False
Exhausted(n_refit) == n_refit = 0

\* a nested call that passes n_refit on unchanged; C1 must not hold of it
Nested_same_budget(a) == [a EXCEPT !.ignore_n = TRUE]

\* the arguments of the nested call: n_refit - 1, and ignore_n is not passed on
Nested(a) == [a EXCEPT !.n_refit = @ - 1, !.ignore_n = TRUE]

(***************************************************************************)
(* State                                                                   *)
(***************************************************************************)
\* no check_convergence activation
NoArgs == Args(0, 0, 0, NoneList, NoneList, FALSE, TRUE)

\* cc: the check_convergence call in progress or just finished.  pc is
\* "idle", "active" (a nested activation is about to run), "returned" or
\* "raised"; call holds the caller's arguments, args those of the activation
\* about to run (or the last one run); refits and randomized count the
\* refit() and randomize_pdf() calls made so far.
CCIdle == [pc |-> "idle", pdf |-> 0, call |-> NoArgs, args |-> NoArgs,
           refits |-> 0, randomized |-> 0, ret |-> FALSE]

Outcome(op, args, ret, raised) == [op |-> op, args |-> args, ret |-> ret, raised |-> raised]

Init ==
    /\ heap = <<>>
    /\ pdfs = <<>>
    /\ cc = CCIdle
    /\ last = Outcome("none", <<>>, 0, NoError)

(***************************************************************************)
(* The callers' inputs                                                     *)
(***************************************************************************)
PdfNames == {S_a, S_b}
Lwb == PyNum(0)
Upb == PyNum(2 * HalfWidth)
HeapIds == 1..Len(heap)
PdfIds == 1..Len(pdfs)

\* an observable: ['x', lwb, upb], ['y', lwb, upb], the tuple ('x', lwb, upb)
\* of the tests, or a variable that exists already
ObservableSpecs ==
    {SpecList(<<PyStr(S_x), Lwb, Upb>>), SpecList(<<PyStr(S_y), Lwb, Upb>>),
     SpecTuple(<<PyStr(S_x), Lwb, Upb>>)}
    \cup {SpecVar(i) : i \in HeapIds}

\* a parameter: [lwb, upb] or a variable that exists already
ParameterSpecs ==
    {SpecList(<<Lwb, Upb>>)} \cup {SpecVar(i) : i \in HeapIds}

(***************************************************************************)
(* Construction of PDFs                                                    *)
(***************************************************************************)
NewPDF(x, param, name) ==
    /\ Len(pdfs) < MaxPdfs
    /\ LET r == MyPDF(heap, x, <<[var |-> param, name |-> S_mean]>>, name)
       IN  IF r.raised # NoError
           THEN /\ last' = Outcome("PDF", <<>>, 0, r.raised)
                /\ UNCHANGED <<heap, pdfs>>
           ELSE /\ heap' = r.heap
                /\ pdfs' = Append(pdfs, r.self)
                /\ last' = Outcome("PDF", <<>>, Len(pdfs) + 1, NoError)
    /\ UNCHANGED cc

NewProdPdf(ids) ==
    /\ Len(pdfs) < MaxPdfs
    /\ pdfs' = Append(pdfs, ProdPdf(pdfs, ids, PyNone))
    /\ last' = Outcome("ProdPdf", ids, Len(pdfs) + 1, NoError)
    /\ UNCHANGED <<heap, cc>>

NewConvolution(p1, p2, fft) ==
    /\ Len(pdfs) < MaxPdfs
    /\ LET r == Convolution(heap, pdfs, p1, p2, S_RooFFTConvPdf, fft)
       IN  IF r.raised # NoError
           THEN /\ last' = Outcome("Convolution", <<p1, p2>>, 0, r.raised)
                /\ UNCHANGED pdfs
           ELSE /\ pdfs' = Append(pdfs, r.self)
                /\ last' = Outcome("Convolution", <<p1, p2>>, Len(pdfs) + 1, NoError)
    /\ UNCHANGED <<heap, cc>>

NewSimFit(ids) ==
    /\ Len(pdfs) < MaxPdfs
    /\ pdfs' = Append(pdfs, SimFit(pdfs, ids))
    /\ last' = Outcome("SimFit", ids, Len(pdfs) + 1, NoError)
    /\ UNCHANGED <<heap, cc>>

NewAddPdf(given, ids) ==
    /\ Len(pdfs) < MaxPdfs
    /\ LET r == AddPdf(heap, pdfs, given, ids, PyNone)
       IN  IF r.raised # NoError
           THEN /\ last' = Outcome("AddPdf", ids, 0, r.raised)
                /\ UNCHANGED <<heap, pdfs>>
           ELSE /\ heap' = r.heap
                /\ pdfs' = Append(pdfs, r.self)
                /\ last' = Outcome("AddPdf", ids, Len(pdfs) + 1, NoError)
    /\ UNCHANGED cc

\* sum.add(pdf): an exception of init_pdf leaves sum.pdfs already extended
Add(sum, id) ==
    /\ pdfs[sum].cls = "AddPdf"
    /\ Len(pdfs[sum].pdfs) < MaxComponents
    /\ ~Has(pdfs[sum].pdfs, pdfs[id].name)
    /\ LET r == AddPdf_add(heap, pdfs, pdfs[sum], id, PyNone)
       IN  /\ heap' = r.heap
           /\ pdfs' = [r.pdfs EXCEPT ![sum] = r.self]
           /\ last' = Outcome("add", <<sum>>, 0, r.raised)
    /\ UNCHANGED cc

ConstrainNorm(sum, pdf, normalization) ==
    /\ pdfs[sum].cls = "AddPdf"
    /\ ~Has(pdfs[sum].external_norms, pdf)
    /\ LET r == constrain_norm(heap, pdfs, pdfs[sum], pdf, normalization)
       IN  /\ heap' = r.heap
           /\ pdfs' = [pdfs EXCEPT ![sum] = r.self]
           /\ last' = Outcome("constrain_norm", <<sum>>, 0, r.raised)
    /\ UNCHANGED cc

Pairs == {<<i, j>> : i \in PdfIds, j \in PdfIds} \ {<<i, i>> : i \in PdfIds}

Next ==
    \/ \E x \in ObservableSpecs, param \in ParameterSpecs, name \in PdfNames :
           NewPDF(x, param, name)
    \/ \E ids \in Pairs : NewProdPdf(ids)
    \/ \E ids \in Pairs, fft \in BOOLEAN : NewConvolution(ids[1], ids[2], fft)
    \/ \E ids \in Pairs : NewSimFit(ids)
    \/ \E ids \in Pairs \cup {<<>>}, given \in BOOLEAN :
           (given \/ ids = <<>>) /\ NewAddPdf(given, ids)

Spec == Init /\ [][Next]_vars

(***************************************************************************)
(* The resolver: create_roo_variable, add_parameter and add_observable     *)
(* applied to lists and tuples of every length up to 5 with their numbers  *)
(* in every order, to variables that exist and to a Var; beside a shape    *)
(* 'a' and a PDF 'b' that has no variable yet                              *)
(***************************************************************************)
Mid == PyNum(HalfWidth)

Perms3 == {<<Lwb, Mid, Upb>>, <<Lwb, Upb, Mid>>, <<Mid, Lwb, Upb>>,
           <<Mid, Upb, Lwb>>, <<Upb, Lwb, Mid>>, <<Upb, Mid, Lwb>>}

ItemLists ==
    {<<a, b>> : a \in {Lwb, Upb}, b \in {Lwb, Upb}}
    \cup {<<PyStr(S_y), a, b>> : a \in {Lwb, Upb}, b \in {Lwb, Upb}}
    \cup Perms3
    \cup {<<PyStr(S_y)>> \o p : p \in Perms3}
    \cup {<<>>, <<PyStr(S_y)>>, <<PyStr(S_y), Lwb, Mid, Upb, Lwb>>}

ResolverSpecs ==
    {SpecList(items) : items \in ItemLists}
    \cup {SpecTuple(items) : items \in ItemLists}
    \cup {SpecVar(i) : i \in HeapIds}
    \cup {SpecDescriptor}

\* the keywords name, lwb, upb, val of create_roo_variable
Keywords ==
    {[name |-> n, lwb |-> b[1], upb |-> b[2], val |-> b[3]] :
        n \in {PyNone, PyStr(S_sigma)},
        b \in {<<PyNone, PyNone, PyNone>>, <<Lwb, Upb, Mid>>}}

InitResolve ==
    LET a == MyPDF(<<>>, SpecList(<<PyStr(S_x), Lwb, Upb>>),
                   <<[var |-> SpecList(<<Lwb, Upb>>), name |-> S_mean]>>, S_a)
    IN  /\ heap = a.heap
        /\ pdfs = <<a.self, PDF_init_tail(PDF_init("PDF", S_b))>>
        /\ cc = CCIdle
        /\ last = Outcome("PDF", <<>>, Len(pdfs), NoError)

\* one call of the resolver is looked at, in the state of InitResolve
Fresh == last.op = "PDF"

CreateRooVariable(var, kw) ==
    /\ Fresh
    /\ LET r == create_roo_variable(heap, var, kw.name, kw.lwb, kw.upb, kw.val)
       IN  /\ heap' = r.heap
           /\ last' = Outcome("create_roo_variable", <<var, kw>>, r.ret, r.raised)
    /\ UNCHANGED <<pdfs, cc>>

AddParameter(pdf, var, param_name) ==
    /\ Fresh
    /\ LET r == add_parameter(heap, pdfs[pdf], var, param_name, PyNone)
       IN  /\ heap' = r.heap
           /\ pdfs' = [pdfs EXCEPT ![pdf] = r.self]
           /\ last' = Outcome("add_parameter", <<pdf, var, param_name>>, r.ret, r.raised)
    /\ UNCHANGED cc

AddObservable(pdf, var) ==
    /\ Fresh
    /\ LET r == add_observable(heap, pdfs[pdf], var)
       IN  /\ heap' = r.heap
           /\ pdfs' = [pdfs EXCEPT ![pdf] = r.self]
           /\ last' = Outcome("add_observable", <<pdf, var>>, r.ret, r.raised)
    /\ UNCHANGED cc

NextResolve ==
    \/ \E var \in ResolverSpecs, kw \in Keywords : CreateRooVariable(var, kw)
    \/ \E pdf \in PdfIds, var \in ResolverSpecs, param_name \in {S_mean, S_sigma} :
           AddParameter(pdf, var, param_name)
    \/ \E pdf \in PdfIds, var \in ResolverSpecs : AddObservable(pdf, var)

SpecResolve == InitResolve /\ [][NextResolve]_vars

(***************************************************************************)
(* Convolutions: of two PDFs that are shapes in x or y, over one variable  *)
(* or two, or an AddPdf() without components and so without observables   *)
(***************************************************************************)
Operand(h, kind, other, name, tied) ==
    IF kind = "none" THEN AddPdf(h, <<>>, FALSE, <<>>, PyStr(name))
    ELSE MyPDF(h,
               IF kind = "same" THEN SpecVar(get_observable(other))
               ELSE SpecList(<<PyStr(IF kind = "x" THEN S_x ELSE S_y), Lwb, Upb>>),
               <<[var |-> IF tied THEN SpecVar(Get(other.parameters, S_mean))
                          ELSE SpecList(<<Lwb, Upb>>),
                  name |-> S_mean]>>, name)

InitConvolution ==
    \E ka \in {"x", "y", "none"}, kb \in {"x", "y", "none", "same"},
       name \in PdfNames, tied \in BOOLEAN :
        /\ kb = "same" \/ tied => ka # "none"
        /\ LET a == Operand(<<>>, ka, PDF_init("PDF", S_a), S_a, FALSE)
               b == Operand(a.heap, kb, a.self, name, tied)
           IN  /\ heap = b.heap
               /\ pdfs = <<a.self, b.self>>
               /\ cc = CCIdle
               /\ last = Outcome("PDF", <<>>, Len(pdfs), NoError)

NextConvolution ==
    \E ids \in Pairs, fft \in BOOLEAN : NewConvolution(ids[1], ids[2], fft)

SpecConvolution == InitConvolution /\ [][NextConvolution]_vars

(***************************************************************************)
(* Fixing a yield of a Sum                                                 *)
(***************************************************************************)
\* set_error: a bool or a float
PyBool(b) == [t |-> "bool", b |-> b]
Truthy(v) == IF v.t = "bool" THEN v.b ELSE IF v.t = "num" THEN v.n # 0 ELSE FALSE

\* n**0.5 of a count that is a square
Sqrt(n) == CHOOSE r \in 0..n : r * r = n

\* RooRealVar.setVal clips the value into the variable's range
setVal(var, value) ==
    [var EXCEPT !.val = IF value < var.min THEN var.min
                        ELSE IF value > var.max THEN var.max ELSE value]
setError(var, value) == [var EXCEPT !.err = value]

\* set_parameter(p, params), params a list [value, error, min, max] or its
\* first one or two elements; a list of another length is logged as an
\* error.  The variable keeps its value inside the range it is given.
set_parameter(h, self, p, params) ==
    IF ~Has(self.parameters, p) THEN [heap |-> h, error |-> FALSE, raised |-> "AssertionError"]
    ELSE LET i == Get(self.parameters, p)
             par == h[i]
         IN  IF Len(params) = 1
             THEN [heap |-> [h EXCEPT ![i] = setVal(par, params[1])],
                   error |-> FALSE, raised |-> NoError]
             ELSE IF Len(params) = 2
             THEN [heap |-> [h EXCEPT ![i] = setError(setVal(par, params[1]), params[2])],
                   error |-> FALSE, raised |-> NoError]
             ELSE IF Len(params) = 4
             THEN LET p1 == setError(setVal(par, params[1]), params[2])
                      p2 == setMin(p1, params[3])
                      p3 == setMax(setVal(p2, p2.val), params[4])
                  IN  [heap |-> [h EXCEPT ![i] = setVal(p3, p3.val)],
                       error |-> FALSE, raised |-> NoError]
             ELSE [heap |-> h, error |-> TRUE, raised |-> NoError]

\* fix_norm that takes n itself as the error
fix_norm_error_n(h, ps, self, pdf, n, set_error) ==
    IF ~Has(self.pdfs, ps[pdf].name) THEN Raise(h, "AssertionError")
    ELSE IF ~Has(self.norms, ps[pdf].name) THEN Raise(h, "KeyError")
    ELSE LET v == Get(self.norms, ps[pdf].name)
             h1 == IF n.t # "none" THEN [h EXCEPT ![v] = setVal(@, n.n)] ELSE h
         IN  IF Truthy(set_error) /\ set_error.t = "bool" /\ n.t = "none"
             THEN Raise(h1, "TypeError")
             ELSE LET h2 == IF ~Truthy(set_error) THEN h1
                            ELSE IF set_error.t = "bool"
                            THEN [h1 EXCEPT ![v] = setError(@, n.n)]
                            ELSE [h1 EXCEPT ![v] = setError(@, set_error.n)]
                  IN  [heap |-> [h2 EXCEPT ![v] = setConstant(@, TRUE)],
                       ret |-> 0, raised |-> NoError]

\* self.fix_norm(pdf, n, set_error), pdf a PDF
fix_norm(h, ps, self, pdf, n, set_error) ==
    IF ~Has(self.pdfs, ps[pdf].name) THEN Raise(h, "AssertionError")
    ELSE IF ~Has(self.norms, ps[pdf].name) THEN Raise(h, "KeyError")
    ELSE LET v == Get(self.norms, ps[pdf].name)
             h1 == IF n.t # "none" THEN [h EXCEPT ![v] = setVal(@, n.n)] ELSE h
         IN  IF Truthy(set_error) /\ set_error.t = "bool" /\ n.t = "none"
             THEN Raise(h1, "TypeError")
             ELSE LET h2 == IF ~Truthy(set_error) THEN h1
                            ELSE IF set_error.t = "bool"
                            THEN [h1 EXCEPT ![v] = setError(@, Sqrt(n.n))]
                            ELSE [h1 EXCEPT ![v] = setError(@, set_error.n)]
                  IN  [heap |-> [h2 EXCEPT ![v] = setConstant(@, TRUE)],
                       ret |-> 0, raised |-> NoError]

\* the counts a yield is fixed to: squares inside the yield's bounds
Counts(var) == {k * k : k \in 0..var.max} \cap var.min..var.max

FixNorm(sum, pdf, n, set_error) ==
    /\ pdfs[sum].cls = "AddPdf"
    /\ LET r == fix_norm(heap, pdfs, pdfs[sum], pdf, n, set_error)
       IN  /\ heap' = r.heap
           /\ last' = Outcome("fix_norm", <<sum, pdf, n, set_error>>, 0, r.raised)
    /\ UNCHANGED <<pdfs, cc>>

(***************************************************************************)
(* Growing a Product: two shapes, of one name or two, over one observable  *)
(* or two, with a parameter of their own or one in common; then            *)
(* ProdPdf(...) and add                                                    *)
(***************************************************************************)
InitProd ==
    \E name \in PdfNames, shared \in BOOLEAN, tied \in BOOLEAN :
        LET a == MyPDF(<<>>, SpecList(<<PyStr(S_x), Lwb, Upb>>),
                       <<[var |-> SpecList(<<Lwb, Upb>>), name |-> S_mean]>>, S_a)
            b == MyPDF(a.heap,
                       IF shared THEN SpecVar(get_observable(a.self))
                       ELSE SpecList(<<PyStr(S_y), Lwb, Upb>>),
                       <<[var |-> IF tied THEN SpecVar(Get(a.self.parameters, S_mean))
                                  ELSE SpecList(<<Lwb, Upb>>),
                          name |-> S_sigma]>>, name)
        IN  /\ heap = b.heap
            /\ pdfs = <<a.self, b.self>>
            /\ cc = CCIdle
            /\ last = Outcome("PDF", <<>>, Len(pdfs), NoError)

ProdAdd(prod, pdf, name) ==
    /\ pdfs[prod].cls = "ProdPdf"
    /\ pdfs' = [pdfs EXCEPT ![prod] = ProdPdf_add(pdfs, @, pdf, name)]
    /\ last' = Outcome("add", <<prod, pdf>>, 0, NoError)
    /\ UNCHANGED <<heap, cc>>

Lists == {<<i>> : i \in PdfIds} \cup Pairs

NextProd ==
    \/ \E ids \in Lists : NewProdPdf(ids)
    \/ \E prod \in PdfIds, pdf \in PdfIds, name \in {PyNone, PyStr(S_b)} :
           prod # pdf /\ ProdAdd(prod, pdf, name)

SpecProd == InitProd /\ [][NextProd]_vars

(***************************************************************************)
(* Growing a Sum: two shapes, of one name or two, over one observable or   *)
(* two, and an empty AddPdf(); then add and constrain_norm                 *)
(***************************************************************************)
InitSum ==
    \E name \in PdfNames, shared \in BOOLEAN :
        LET a == MyPDF(<<>>, SpecList(<<PyStr(S_x), Lwb, Upb>>),
                       <<[var |-> SpecList(<<Lwb, Upb>>), name |-> S_mean]>>, S_a)
            b == MyPDF(a.heap,
                       IF shared THEN SpecVar(get_observable(a.self))
                       ELSE SpecList(<<PyStr(S_y), Lwb, Upb>>),
                       <<[var |-> SpecList(<<Lwb, Upb>>), name |-> S_mean]>>, name)
        IN  /\ heap = b.heap
            /\ pdfs = Append(<<a.self, b.self>>,
                             AddPdf(heap, <<a.self, b.self>>, FALSE, <<>>, PyNone).self)
            /\ cc = CCIdle
            /\ last = Outcome("AddPdf", <<>>, Len(pdfs), NoError)

NextSum ==
    \/ \E sum \in PdfIds, id \in PdfIds : sum # id /\ Add(sum, id)
    \/ \E sum \in PdfIds, pdf \in PdfNames, v \in HeapIds : ConstrainNorm(sum, pdf, v)

SpecSum == InitSum /\ [][NextSum]_vars

(***************************************************************************)
(* Fitting and editing the parameters of PDFs that exist                   *)
(***************************************************************************)
Flag(b) == IF b THEN 1 ELSE 0

\* pdf.fit(df); a result of check_convergence is the caller's until then
Fit(pdf) ==
    /\ cc.pc # "active"
    /\ LET r == fit(heap, pdfs[pdf])
       IN  /\ pdfs' = [pdfs EXCEPT ![pdf] = r.self]
           /\ last' = Outcome("fit", <<pdf>>, 0, r.raised)
           /\ cc' = CCIdle
           /\ \E h2 \in r.heaps : heap' = h2

Narrow(pdf, sigma) ==
    /\ heap' = narrow(heap, pdfs[pdf], sigma)
    /\ last' = Outcome("narrow", <<pdf, sigma>>, 0, NoError)
    /\ UNCHANGED <<pdfs, cc>>

Fix(pdf, constant) ==
    /\ heap' = fix(heap, pdfs[pdf], constant)
    /\ last' = Outcome("fix", <<pdf, Flag(constant)>>, 0, NoError)
    /\ UNCHANGED <<pdfs, cc>>

\* a = MyPDF(['x', lwb, upb], [lwb, upb], 'a'); b = MyPDF(a.x, a.x, 'b'):
\* b's parameter is the variable that is also its observable
InitPar ==
    LET a == MyPDF(<<>>, SpecList(<<PyStr(S_x), Lwb, Upb>>),
                   <<[var |-> SpecList(<<Lwb, Upb>>), name |-> S_mean]>>, S_a)
        x == get_observable(a.self)
        b == MyPDF(a.heap, SpecVar(x), <<[var |-> SpecVar(x), name |-> S_mean]>>, S_b)
    IN  /\ heap = b.heap
        /\ pdfs = <<a.self, b.self>>
        /\ cc = CCIdle
        /\ last = Outcome("none", <<>>, 0, NoError)

NextPar ==
    \/ \E pdf \in PdfIds : Fit(pdf)
    \/ \E pdf \in PdfIds, sigma \in 0..MaxSigma : Narrow(pdf, sigma)
    \/ \E pdf \in PdfIds, constant \in BOOLEAN : Fix(pdf, constant)

SpecPar == InitPar /\ [][NextPar]_vars

(***************************************************************************)
(* randomize_pdf and fix on a shape with two parameters                    *)
(***************************************************************************)
InitRand ==
    LET a == MyPDF(<<>>, SpecList(<<PyStr(S_x), Lwb, Upb>>),
                   <<[var |-> SpecList(<<Lwb, Upb>>), name |-> S_mean],
                     [var |-> SpecList(<<Lwb, Upb>>), name |-> S_sigma]>>, S_a)
    IN  /\ heap = a.heap
        /\ pdfs = <<a.self>>
        /\ cc = CCIdle
        /\ last = Outcome("PDF", <<>>, Len(pdfs), NoError)

\* exceptions and only as callers pass them: None, parameters of the PDF,
\* and for only also a name the PDF does not have
NameLists(names) == {NoneList} \cup {SomeList(<<n>>) : n \in names}

Randomize(pdf, exceptions, only) ==
    /\ LET r == randomize_pdf(heap, pdfs[pdf], exceptions, only)
       IN  /\ last' = Outcome("randomize_pdf", <<pdf, exceptions, only>>, 0, r.raised)
           /\ \E h2 \in r.heaps : heap' = h2
    /\ UNCHANGED <<pdfs, cc>>

NextRand ==
    \/ \E pdf \in PdfIds, exceptions \in NameLists({S_mean, S_sigma}),
           only \in NameLists({S_mean, S_sigma, S_n_sig}) :
           Randomize(pdf, exceptions, only)
    \/ \E pdf \in PdfIds, constant \in BOOLEAN : Fix(pdf, constant)

SpecRand == InitRand /\ [][NextRand]_vars

(***************************************************************************)
(* Variables shared between a component and its composite: a shape with    *)
(* parameter mean and a Product, a SimFit or a Sum built from it; every    *)
(* editing operation through the shape or through the composite            *)
(***************************************************************************)
InitShare ==
    \E kind \in {"ProdPdf", "SimFit", "AddPdf"} :
        LET a == MyPDF(<<>>, SpecList(<<PyStr(S_x), Lwb, Upb>>),
                       <<[var |-> SpecList(<<Lwb, Mid>>), name |-> S_mean]>>, S_a)
            n == create_roo_variable(a.heap, SpecList(<<PyStr(S_n_sig), Lwb, Lwb>>),
                                     PyNone, PyNone, PyNone, PyNone)
            ps == <<a.self>>
            \* s = AddPdf(); s.add(a) (refused); s.constrain_norm('a', n)
            s0 == AddPdf(heap, ps, FALSE, <<>>, PyNone)
            s1 == AddPdf_add(heap, ps, s0.self, 1, PyNone)
            s2 == constrain_norm(heap, ps, s1.self, S_a, n.ret)
        IN  /\ heap = IF kind = "AddPdf" THEN n.heap ELSE a.heap
            /\ pdfs = Append(ps, IF kind = "ProdPdf" THEN ProdPdf(ps, <<1>>, PyNone)
                                 ELSE IF kind = "SimFit" THEN SimFit(ps, <<1>>)
                                 ELSE s2.self)
            /\ cc = CCIdle
            /\ last = Outcome(kind, <<>>, Len(pdfs), NoError)

\* the windows constrain sets stay inside the range callers declare
Constrain(pdf, sigma) ==
    /\ \A i \in Values(pdfs[pdf].parameters) :
           /\ heap[i].val - sigma * heap[i].err >= Lwb.n
           /\ heap[i].val + sigma * heap[i].err <= Mid.n
    /\ heap' = constrain(heap, pdfs[pdf], sigma)
    /\ last' = Outcome("constrain", <<pdf, sigma>>, 0, NoError)
    /\ UNCHANGED <<pdfs, cc>>

\* [value], [value, error], [value, error, min, max] and a list of three
ParameterLists ==
    {<<v>> : v \in {Lwb.n, Mid.n}} \cup {<<Mid.n, 1>>, <<Mid.n, 1, Lwb.n>>}
    \cup {<<Mid.n, 1, Lwb.n, hi>> : hi \in {Lwb.n, Mid.n}}

SetParameter(pdf, p, params) ==
    /\ LET r == set_parameter(heap, pdfs[pdf], p, params)
       IN  /\ heap' = r.heap
           /\ last' = Outcome("set_parameter", <<pdf>>, Flag(r.error), r.raised)
    /\ UNCHANGED <<pdfs, cc>>

NextShare ==
    \/ \E pdf \in PdfIds : Fit(pdf)
    \/ \E pdf \in PdfIds : Narrow(pdf, 1)
    \/ \E pdf \in PdfIds : Constrain(pdf, 1)
    \/ \E pdf \in PdfIds, constant \in BOOLEAN : Fix(pdf, constant)
    \/ \E pdf \in PdfIds : Randomize(pdf, NoneList, NoneList)
    \/ \E pdf \in PdfIds, p \in {S_mean, S_sigma}, params \in ParameterLists :
           SetParameter(pdf, p, params)

SpecShare == InitShare /\ [][NextShare]_vars

(***************************************************************************)
(* The data of a simultaneous fit: two shapes, of one name or two, over    *)
(* one observable or two; SimFit(a, b) and get_fit_data                    *)
(***************************************************************************)
SharedTable == [list |-> FALSE, tuples |-> <<>>]
TupleList(tuples) == [list |-> TRUE, tuples |-> tuples]

\* one table for all, or the PDFs of the SimFit dealt out to tables: each
\* with its own, both with one, one left out, a tuple without a PDF
FitData(self) ==
    {SharedTable}
    \cup {TupleList(<<<<self.sim_pdfs[i]>>, <<self.sim_pdfs[j]>>>>) :
              i \in 1..Len(self.sim_pdfs), j \in 1..Len(self.sim_pdfs)}
    \cup {TupleList(<<self.sim_pdfs>>), TupleList(<<<<self.sim_pdfs[1]>>>>),
          TupleList(<<self.sim_pdfs, <<>>>>)}

GetFitData(sim, df, nbins) ==
    /\ pdfs[sim].cls = "SimFit"
    /\ LET r == SimFit_get_fit_data(pdfs, pdfs[sim], df, nbins)
       IN  last' = Outcome("get_fit_data", <<sim, df, nbins>>, r.imports, r.raised)
    /\ UNCHANGED <<heap, pdfs, cc>>

SimFits == {i \in PdfIds : pdfs[i].cls = "SimFit"}

NextSim ==
    \/ \E ids \in Pairs : NewSimFit(ids)
    \/ \E sim \in SimFits, nbins \in BOOLEAN :
           \E df \in FitData(pdfs[sim]) : GetFitData(sim, df, nbins)

SpecSim == InitProd /\ [][NextSim]_vars

(***************************************************************************)
(* refit and plot, before and after a fit: the shapes of InitPar           *)
(***************************************************************************)
\* plot(filename, data): without last_data and data an error is logged and
\* nothing is drawn; else one plot, or one per observable if there are
\* several
plot(self, data) ==
    IF self.last_data = NoData /\ ~data THEN [plots |-> 0, error |-> TRUE]
    ELSE [plots |-> IF Len(self.observables) = 1 THEN 1 ELSE Len(self.observables),
          error |-> FALSE]

Plot(pdf, data) ==
    /\ last' = Outcome("plot", <<pdf, data>>, plot(pdfs[pdf], data), NoError)
    /\ UNCHANGED <<heap, pdfs, cc>>

Refit(pdf, randomize) ==
    /\ LET r == refit(heap, pdfs[pdf], randomize, NoneList, NoneList)
       IN  /\ last' = Outcome("refit", <<pdf, randomize>>, 0, r.raised)
           /\ \E h2 \in r.heaps : heap' = h2
    /\ UNCHANGED <<pdfs, cc>>

NextRefit ==
    \/ \E pdf \in PdfIds : Fit(pdf)
    \/ \E pdf \in PdfIds, randomize \in BOOLEAN : Refit(pdf, randomize)
    \/ \E pdf \in PdfIds, data \in BOOLEAN : Plot(pdf, data)

SpecRefit == InitPar /\ [][NextRefit]_vars

(***************************************************************************)
(* KernelDensity: a PDF whose init_pdf fits the data it is given           *)
(***************************************************************************)
S_kde_bkg == <<"k", "d", "e", "_", "b", "k", "g">>

\* KernelDensity._fit(data_roo): the native PDF is built from the data
KernelDensity__fit(self, data_roo) ==
    [self EXCEPT !.roo_pdf = [cls |-> "RooKeysPdf", pdfs |-> <<>>, norms |-> <<>>,
                              servers |-> {get_observable(self)}]]

\* fit(df), inherited from PDF
KernelDensity_fit(self) ==
    LET self1 == [self EXCEPT !.last_data = get_fit_data(self)]
    IN  KernelDensity__fit(self1, self1.last_data)

\* init_pdf(): if self.data is not None: self.fit(self.data)
KernelDensity_init_pdf(self, data) ==
    IF data THEN KernelDensity_fit(self) ELSE self

\* KernelDensity(observable, data, name=name): PDF.__init__ adds the
\* observable, calls init_pdf() and then sets last_data = None
KernelDensity(h, observable, data, name) ==
    LET self0 == PDF_init("KernelDensity", name)
        r == add_observable(h, self0, observable)
    IN  IF r.raised # NoError THEN PdfRaise(h, self0, r.raised)
        ELSE [heap |-> r.heap,
              self |-> PDF_init_tail(KernelDensity_init_pdf(r.self, data)),
              ret |-> 0,
              raised |-> NoError]

NewKernelDensity(data, name) ==
    /\ Len(pdfs) < MaxPdfs
    /\ LET r == KernelDensity(heap, SpecList(<<PyStr(S_x), Lwb, Upb>>), data, name)
       IN  /\ heap' = r.heap
           /\ pdfs' = Append(pdfs, r.self)
           /\ last' = Outcome("KernelDensity", <<Flag(data)>>, Len(pdfs) + 1, r.raised)
    /\ UNCHANGED cc

FitKernelDensity(pdf) ==
    /\ pdfs[pdf].cls = "KernelDensity"
    /\ pdfs' = [pdfs EXCEPT ![pdf] = KernelDensity_fit(@)]
    /\ last' = Outcome("fit", <<pdf>>, 0, NoError)
    /\ UNCHANGED <<heap, cc>>

NextKernel ==
    \/ \E data \in BOOLEAN, name \in {S_kde_bkg, S_a} : NewKernelDensity(data, name)
    \/ \E pdf \in PdfIds : FitKernelDensity(pdf)
    \/ \E pdf \in PdfIds : Refit(pdf, FALSE)
    \/ \E pdf \in PdfIds, data \in BOOLEAN : Plot(pdf, data)

SpecKernel == Init /\ [][NextKernel]_vars

(***************************************************************************)
(* The convergence loop on a fitted shape                                  *)
(***************************************************************************)
(***************************************************************************)
(* A Sum whose yield is fixed and which is fitted: a shape, a variable for  *)
(* its yield and an empty AddPdf(); add, constrain_norm, fix_norm and fit   *)
(***************************************************************************)
InitNorm ==
    LET a == MyPDF(<<>>, SpecList(<<PyStr(S_x), Lwb, Upb>>),
                   <<[var |-> SpecList(<<Lwb, Lwb>>), name |-> S_mean]>>, S_a)
        n == create_roo_variable(a.heap,
                                 SpecList(<<PyStr(S_n_sig), Lwb, PyNum(4 * HalfWidth)>>),
                                 PyNone, PyNone, PyNone, PyNone)
    IN  /\ heap = n.heap
        /\ pdfs = <<a.self, AddPdf(heap, <<a.self>>, FALSE, <<>>, PyNone).self>>
        /\ cc = CCIdle
        /\ last = Outcome("AddPdf", <<>>, Len(pdfs), NoError)

CountsOf(sum, pdf) ==
    IF Has(pdfs[sum].norms, pdfs[pdf].name)
    THEN {PyNum(k) : k \in Counts(heap[Get(pdfs[sum].norms, pdfs[pdf].name)])}
    ELSE {PyNum(0)}

Sums == {i \in PdfIds : pdfs[i].cls = "AddPdf"}

NextNorm ==
    \/ \E sum \in PdfIds, id \in PdfIds : sum # id /\ Add(sum, id)
    \/ \E sum \in PdfIds, pdf \in PdfNames, v \in HeapIds : ConstrainNorm(sum, pdf, v)
    \/ \E sum \in Sums, pdf \in PdfIds \ Sums,
           set_error \in {PyBool(TRUE), PyBool(FALSE), PyNum(1)} :
           \E n \in CountsOf(sum, pdf) \cup {PyNone} : FixNorm(sum, pdf, n, set_error)
    \/ \E sum \in Sums : Fit(sum)

SpecNorm == InitNorm /\ [][NextNorm]_vars

(***************************************************************************)
(* Rebuilding a Sum: two shapes, two variables for yields and an empty     *)
(* AddPdf(); add, constrain_norm and fix_norm                              *)
(***************************************************************************)
InitRebuild ==
    LET a == MyPDF(<<>>, SpecList(<<PyStr(S_x), Lwb, Upb>>),
                   <<[var |-> SpecList(<<Lwb, Lwb>>), name |-> S_mean]>>, S_a)
        b == MyPDF(a.heap, SpecVar(get_observable(a.self)),
                   <<[var |-> SpecList(<<Lwb, Lwb>>), name |-> S_sigma]>>, S_b)
        n1 == create_roo_variable(b.heap,
                                  SpecList(<<PyStr(S_n_sig), Lwb, PyNum(4 * HalfWidth)>>),
                                  PyNone, PyNone, PyNone, PyNone)
        n2 == create_roo_variable(n1.heap,
                                  SpecList(<<PyStr(S_y), Lwb, PyNum(4 * HalfWidth)>>),
                                  PyNone, PyNone, PyNone, PyNone)
    IN  /\ heap = n2.heap
        /\ pdfs = <<a.self, b.self,
                    AddPdf(heap, <<a.self, b.self>>, FALSE, <<>>, PyNone).self>>
        /\ cc = CCIdle
        /\ last = Outcome("AddPdf", <<>>, Len(pdfs), NoError)

NextRebuild ==
    \/ \E sum \in Sums, id \in PdfIds \ Sums : Add(sum, id)
    \/ \E sum \in Sums, pdf \in PdfNames, v \in HeapIds : ConstrainNorm(sum, pdf, v)
    \/ \E sum \in Sums, pdf \in PdfIds \ Sums,
           set_error \in {PyBool(TRUE), PyBool(FALSE), PyNum(1)} :
           \E n \in CountsOf(sum, pdf) \cup {PyNone} : FixNorm(sum, pdf, n, set_error)

SpecRebuild == InitRebuild /\ [][NextRebuild]_vars

ParamNames == {S_sigma, S_n_sig, S_mean_sig}
Point == SpecList(<<Lwb, Lwb>>)

\* the add_parameter calls of the shapes: one parameter on [lwb, upb], or
\* two parameters, each on a one-point range
Shapes ==
    {<<[var |-> SpecList(<<Lwb, Upb>>), name |-> n]>> : n \in ParamNames}
    \cup {<<[var |-> Point, name |-> n1], [var |-> Point, name |-> n2]>> :
            <<n1, n2>> \in {<<S_sigma, S_n_sig>>, <<S_mean_sig, S_sigma>>}}

\* the user may set pdf.use_minos = True on a one-parameter shape
InitConv ==
    \E params \in Shapes, minos \in BOOLEAN :
        LET r == MyPDF(<<>>, SpecList(<<PyStr(S_x), Lwb, Upb>>), params, S_a)
        IN  /\ minos => Len(params) = 1
            /\ heap = r.heap
            /\ pdfs = <<[r.self EXCEPT !.use_minos = minos]>>
            /\ cc = CCIdle
            /\ last = Outcome("none", <<>>, 0, NoError)

\* what callers pass
Limits == <<1, MaxErr - 1>>
OnlyLists(self) == {NoneList, SomeList(<<self.parameters[Len(self.parameters)].k>>)}
ExceptionLists(self) == {NoneList, SomeList(<<self.parameters[1].k>>)}
CallArgs(self) ==
    {Args(Limits[1], Limits[2], n, only, exceptions, assym, ignore_n) :
        n \in 0..MaxRefit, only \in OnlyLists(self),
        exceptions \in ExceptionLists(self), assym \in BOOLEAN, ignore_n \in BOOLEAN}

\* one activation of check_convergence with arguments a
Activation(pdf, a, call, refits, randomized) ==
    LET self == pdfs[pdf]
        suspect == scan(heap, self, ScanList(self, a), a)
        r == refit(heap, self, TRUE, a.exceptions, a.only)
        frame(pc, args, n, ret) ==
            [pc |-> pc, pdf |-> pdf, call |-> call, args |-> args,
             refits |-> refits + n, randomized |-> randomized + n, ret |-> ret]
    IN  /\ last' = Outcome("check_convergence", <<pdf>>, 0, NoError)
        /\ UNCHANGED pdfs
        /\ IF suspect = <<>>
           THEN /\ cc' = frame("returned", a, 0, TRUE)
                /\ heap' = heap
           ELSE IF Exhausted(a.n_refit)
           THEN /\ cc' = frame("returned", a, 0, FALSE)
                /\ heap' = heap
           ELSE /\ cc' = IF r.raised # NoError
                         THEN frame("raised", a, 1, FALSE)
                         ELSE frame("active", Nested(a), 1, FALSE)
                /\ \E h2 \in r.heaps : heap' = h2

\* pdf.check_convergence(...) called by the user
CheckConvergence(pdf, a) ==
    /\ cc.pc = "idle"
    /\ Activation(pdf, a, a, 0, 0)

\* return self.check_convergence(...)
CheckConvergenceNested ==
    /\ cc.pc = "active"
    /\ Activation(cc.pdf, cc.args, cc.call, cc.refits, cc.randomized)

NextConv ==
    \/ \E pdf \in PdfIds : Fit(pdf)
    \/ \E pdf \in PdfIds : \E a \in CallArgs(pdfs[pdf]) : CheckConvergence(pdf, a)
    \/ CheckConvergenceNested

SpecConv == InitConv /\ [][NextConv]_vars

(***************************************************************************)
(* Properties of check_convergence (SpecConv)                              *)
(***************************************************************************)
Fitted(pdf) == pdfs[pdf].last_data # NoData

\* the parameters a scan with arguments a reads
Scanned(self, a) == {p \in Range(ScanList(self, a)) : ~Skipped(p, a)}

\* the error a scan with arguments a reads for parameter p
ScanError(self, a, p) == p_err(heap[Get(self.parameters, p)], a.assym)

\* C1: for every n_refit >= 0 and whatever the Fit Engine reports, a
\* check_convergence call on a fitted PDF does not raise, its result is a
\* boolean, it has run at most n_refit refits (n_refit + 1 fit attempts with
\* the caller's own), and each nested activation runs with an n_refit that is
\* smaller by one and not negative, so the recursion ends.
C1_BoundedRefits ==
    cc.pc # "idle" /\ Fitted(cc.pdf) =>
        /\ cc.pc \in {"active", "returned"}
        /\ cc.ret \in BOOLEAN
        /\ 1 + cc.refits <= cc.call.n_refit + 1
        /\ cc.args.n_refit >= 0
        /\ cc.args.n_refit + cc.refits = cc.call.n_refit

C1_Witness ==
    /\ cc.pc = "returned" /\ Fitted(cc.pdf)
    /\ cc.call.n_refit = MaxRefit /\ cc.refits = MaxRefit /\ cc.ret

\* C2: when the scan after every fit attempt of a call finds a parameter
\* whose error is not inside the limits, the call returns False after
\* exactly n_refit randomize-then-refit retries (n_refit + 1 fit attempts);
\* a call raises only when no fit ever stored a dataset.
C2_ExhaustedReturnsFalse ==
    /\ cc.pc = "returned"
       /\ (\E p \in Scanned(pdfs[cc.pdf], cc.args) :
              LET e == ScanError(pdfs[cc.pdf], cc.args, p)
              IN  ~(cc.args.err_lim_low < e /\ e < cc.args.err_lim_high))
       => /\ cc.ret = FALSE
          /\ cc.refits = cc.call.n_refit
          /\ cc.randomized = cc.call.n_refit
    /\ cc.pc = "raised" => ~Fitted(cc.pdf)

C2_Witness ==
    /\ cc.pc = "returned" /\ Fitted(cc.pdf) /\ cc.ret = FALSE
    /\ cc.call.n_refit = MaxRefit /\ cc.refits = MaxRefit
    /\ \E p \in Scanned(pdfs[cc.pdf], cc.args) :
           ScanError(pdfs[cc.pdf], cc.args, p) > cc.args.err_lim_high

\* a step in which the user calls check_convergence
IsCall == cc.pc = "idle" /\ cc'.pc # "idle"

\* the call returned True at once: no randomization, no refit
ReturnedTrueAtOnce ==
    /\ cc'.pc = "returned" /\ cc'.ret
    /\ cc'.refits = 0 /\ cc'.randomized = 0
    /\ heap' = heap

\* C3 as stated: after a fit, check_convergence returns True with no randomization and no
\* refit exactly when every scanned parameter's error lies in the closed
\* interval [err_lim_low, err_lim_high].
C3_ClosedInterval ==
    [][IsCall /\ Fitted(cc'.pdf) =>
        (ReturnedTrueAtOnce <=>
            \A p \in Scanned(pdfs[cc'.pdf], cc'.call) :
                LET e == ScanError(pdfs[cc'.pdf], cc'.call, p)
                IN  cc'.call.err_lim_low <= e /\ e <= cc'.call.err_lim_high)]_vars

\* C3 amended: after a fit, check_convergence returns True with no randomization and no
\* refit exactly when every scanned parameter's error lies strictly between
\* err_lim_low and err_lim_high; an error equal to a limit is offending.
C3_OpenInterval ==
    [][IsCall /\ Fitted(cc'.pdf) =>
        (ReturnedTrueAtOnce <=>
            \A p \in Scanned(pdfs[cc'.pdf], cc'.call) :
                LET e == ScanError(pdfs[cc'.pdf], cc'.call, p)
                IN  cc'.call.err_lim_low < e /\ e < cc'.call.err_lim_high)]_vars

C3_Witness ==
    /\ cc.pc = "returned" /\ cc.ret /\ cc.refits = 0 /\ Fitted(cc.pdf)
    /\ Cardinality(Scanned(pdfs[cc.pdf], cc.call)) = 2
    /\ \A p \in Scanned(pdfs[cc.pdf], cc.call) :
           LET e == ScanError(pdfs[cc.pdf], cc.call, p)
           IN  cc.call.err_lim_low < e /\ e < cc.call.err_lim_high

\* C4: with ignore_n set, only parameters whose name starts with 'n_' are
\* left out of the scan: when a call after a fit returns True at once, every parameter
\* on the scan list that is not in exceptions and does not start with 'n_'
\* (one that has 'n_' in the middle included) has its error inside the limits.
C4_PrefixOnly ==
    cc.pc = "returned" /\ cc.ret /\ cc.refits = 0 /\ cc.call.ignore_n /\ Fitted(cc.pdf) =>
        \A p \in Range(ScanList(pdfs[cc.pdf], cc.call)) :
            /\ ~(cc.call.exceptions.given /\ p \in Range(cc.call.exceptions.items))
            /\ ~StartsWith(N_, p)
            => LET e == ScanError(pdfs[cc.pdf], cc.call, p)
               IN  cc.call.err_lim_low < e /\ e < cc.call.err_lim_high

(***************************************************************************)
(* Properties of parameter editing (SpecPar)                               *)
(***************************************************************************)
\* C5: for any PDF, any sigma >= 0 and whatever values and errors the fits
\* left, narrow(sigma) leaves every parameter with an interval inside the
\* one it had before: the new min is not below the old min and the new max
\* not above the old max.
C5_NarrowShrinks ==
    [][\A pdf \in PdfIds, sigma \in 0..MaxSigma :
          Narrow(pdf, sigma) =>
              \A i \in Values(pdfs[pdf].parameters) :
                  /\ heap'[i].min >= heap[i].min
                  /\ heap'[i].max <= heap[i].max]_vars

\* narrow(sigma) with sigma > 0 has cut the interval of a parameter that
\* carries a fit error
C5_Witness ==
    /\ last.op = "narrow" /\ last.args[2] > 0
    /\ \E i \in Values(pdfs[last.args[1]].parameters) :
           /\ heap[i].err > 0
           /\ heap[i].min > Lwb.n
           /\ heap[i].max < Upb.n

\* C6 as stated: after fix(True) every entry of the PDF's parameters map is
\* constant, and the constant flag, value and bounds of every observable of
\* the PDF are what they were.
C6_FixLeavesObservables ==
    [][\A pdf \in PdfIds :
          Fix(pdf, TRUE) =>
              /\ \A i \in Values(pdfs[pdf].parameters) : heap'[i].constant
              /\ \A o \in Values(pdfs[pdf].observables) : heap'[o] = heap[o]]_vars

\* C6 amended: after fix(True) every entry of the PDF's parameters map is
\* constant, and every observable of the PDF that is not also an entry of
\* its parameters map keeps its constant flag, value and bounds.
C6_FixLeavesOtherObservables ==
    [][\A pdf \in PdfIds :
          Fix(pdf, TRUE) =>
              /\ \A i \in Values(pdfs[pdf].parameters) : heap'[i].constant
              /\ \A o \in Values(pdfs[pdf].observables) \ Values(pdfs[pdf].parameters) :
                     heap'[o] = heap[o]]_vars

\* fix(True) was called on a PDF with an observable that is no parameter of it
C6_Witness ==
    /\ last.op = "fix" /\ last.args[2] = Flag(TRUE)
    /\ \A i \in Values(pdfs[last.args[1]].parameters) : heap[i].constant
    /\ \E o \in Values(pdfs[last.args[1]].observables) \ Values(pdfs[last.args[1]].parameters) :
           ~heap[o].constant

(***************************************************************************)
(* Properties of composition (Spec)                                        *)
(***************************************************************************)
Composed(ops) == last.op \in ops /\ Len(last.args) > 0

\* the positions of last.args hold two PDFs of one name
NamesCollide ==
    \E i, j \in 1..Len(last.args) :
        i # j /\ pdfs[last.args[i]].name = pdfs[last.args[j]].name

YieldKeys(self) == {k \in KeySet(self.parameters) : StartsWith(N_, k)}

\* C7: a Sum built from a list of N component PDFs with no external yields
\* is constructed, and its parameters map holds exactly N yield entries,
\* n_<component.name> for each component, each with lower bound 0.
C7_SumYields ==
    Composed({"AddPdf"}) /\ ~NamesCollide =>
        /\ last.raised = NoError
        /\ YieldKeys(pdfs[last.ret]) = {N_ \o pdfs[i].name : i \in Range(last.args)}
        /\ Cardinality(YieldKeys(pdfs[last.ret])) = Len(last.args)
        /\ \A k \in YieldKeys(pdfs[last.ret]) :
               heap[Get(pdfs[last.ret].parameters, k)].min = 0

\* C8: the parameters map of a Sum or Product that was constructed holds
\* every variable of every component's parameters map, also when two
\* components register different variables under the same key.
C8_MergeKeepsAll ==
    Composed({"AddPdf", "ProdPdf"}) /\ last.raised = NoError /\ ~NamesCollide =>
        \A i \in Range(last.args) :
            Values(pdfs[i].parameters) \subseteq Values(pdfs[last.ret].parameters)

\* C9: composing (Sum, Product, SimFit) two PDFs of the same name gives the
\* caller an error, not a composite.
C9_DuplicateNameSurfaced ==
    Composed({"AddPdf", "ProdPdf", "SimFit"}) /\ NamesCollide =>
        last.raised # NoError

\* C10: in every composite no two different variables that take part in a
\* fit of it carry the same name.
C10_OneVariablePerName ==
    \A p \in PdfIds :
        pdfs[p].cls \in {"AddPdf", "ProdPdf", "Convolution", "SimFit"} =>
            \A i, j \in pdfs[p].roo_pdf.servers :
                heap[i].name = heap[j].name => i = j

(***************************************************************************)
(* Products, yields of a Sum, convolutions                                 *)
(***************************************************************************)
\* the variables a PDF that is not a composite holds
ShapeVariables ==
    UNION {Values(pdfs[i].observables) \cup Values(pdfs[i].parameters) :
               i \in {j \in PdfIds : pdfs[j].cls = "PDF"}}

\* C11: every Product, after its construction and after every later add(),
\* has use_extended false and no yield: its norms are empty, no parameter
\* of it is an n_<component>, all its parameters are variables of shapes,
\* and every variable that exists is one a shape created.
C11_ProductHasNoYield ==
    \A p \in PdfIds :
        pdfs[p].cls = "ProdPdf" =>
            /\ pdfs[p].use_extended = FALSE
            /\ pdfs[p].norms = AttrDict
            /\ YieldKeys(pdfs[p]) = {}
            /\ Values(pdfs[p].parameters) \subseteq ShapeVariables
            /\ HeapIds = ShapeVariables

\* a Product of one component was given a second one by add()
C11_Witness ==
    /\ last.op = "add"
    /\ pdfs[last.args[1]].cls = "ProdPdf"
    /\ Len(pdfs[last.args[1]].pdfs) = 2
    /\ Len(pdfs[last.args[1]].roo_pdf.pdfs) = 2

\* the yield of component c of Sum s
YieldOf(s, c) == Get(pdfs[s].norms, pdfs[c].name)

\* C12: after fix_norm(component, n, set_error=True) the component's yield
\* has value n, error sqrt(n) and is constant; and a fit of the Sum leaves
\* the value of every yield that is constant as it was.
C12_FixNormHolds ==
    /\ [](last.op = "fix_norm" /\ last.raised = NoError
              /\ last.args[3].t = "num" /\ last.args[4] = PyBool(TRUE) =>
            LET y == heap[YieldOf(last.args[1], last.args[2])]
                n == last.args[3].n
            IN  y.val = n /\ y.err * y.err = n /\ y.err >= 0 /\ y.constant)
    /\ [][last'.op = "fit" =>
            \A v \in Values(pdfs[last'.args[1]].norms) :
                heap[v].constant => heap'[v].val = heap[v].val /\ heap'[v].constant]_vars

\* a yield fixed to 4 +- 2 kept its value in a fit that gave the shape's
\* parameter an error
C12_Witness ==
    /\ last.op = "fit" /\ last.raised = NoError
    /\ \E v \in Values(pdfs[last.args[1]].norms) :
           heap[v].constant /\ heap[v].val = 4 /\ heap[v].err = 2
    /\ \E i \in HeapIds : ~heap[i].constant /\ heap[i].err > 0

\* C13: once constrain_norm(component, v) was called on a Sum, norms[component]
\* and parameters['n_' + component] are v itself and the native composite
\* pairs the component with v, also after later calls of add and of
\* constrain_norm for other components.
C13_ExternalYieldUsed ==
    \A s \in Sums :
        \A c \in KeySet(pdfs[s].external_norms) :
            LET v == Get(pdfs[s].external_norms, c)
                native == pdfs[s].roo_pdf
            IN  /\ Has(pdfs[s].norms, c) /\ Get(pdfs[s].norms, c) = v
                /\ Has(pdfs[s].parameters, N_ \o c)
                /\ Get(pdfs[s].parameters, N_ \o c) = v
                /\ \E i \in 1..Len(native.pdfs) :
                       native.pdfs[i] = Get(pdfs[s].pdfs, c) /\ native.norms[i] = v

\* the keys of the merged observables of the two operands
MergedObservables(p1, p2) == KeySet(pdfs[p1].observables) \cup KeySet(pdfs[p2].observables)

\* C14: Convolution(pdf1, pdf2) of two PDFs whose merged observables have
\* one entry gives a Convolution with a native PDF; with none or more than
\* one entry it raises an error, and no Convolution, native or not, exists
\* afterwards that did not exist before.
C14_OneDimensionOnly ==
    [][last'.op = "Convolution" =>
         IF Cardinality(MergedObservables(last'.args[1], last'.args[2])) = 1
         THEN /\ last'.raised = NoError
              /\ pdfs' = Append(pdfs, pdfs'[last'.ret])
              /\ pdfs'[last'.ret].cls = "Convolution"
              /\ pdfs'[last'.ret].roo_pdf.cls \in {"RooFFTConvPdf", "RooNumConvPdf"}
              /\ pdfs'[last'.ret].roo_pdf.pdfs = last'.args
         ELSE /\ last'.raised # NoError
              /\ pdfs' = pdfs /\ heap' = heap]_vars

\* a convolution of two PDFs without any observable was refused
C14_Witness ==
    /\ last.op = "Convolution" /\ last.raised # NoError
    /\ MergedObservables(last.args[1], last.args[2]) = {}

(***************************************************************************)
(* The resolver                                                            *)
(***************************************************************************)
\* C15: create_roo_variable of a RooRealVar that exists returns that very
\* variable and neither creates nor changes any variable, whatever name,
\* bounds and value are passed along; add_parameter of such a variable
\* registers that very variable.
C15_BoundVariablePassesThrough ==
    [][/\ (last'.op = "create_roo_variable" /\ last'.args[1].t = "RooRealVar") =>
              (/\ last'.raised = NoError
               /\ last'.ret = last'.args[1].id
               /\ heap' = heap)
       /\ (last'.op = "add_parameter" /\ last'.args[2].t = "RooRealVar") =>
              (/\ last'.raised = NoError
               /\ last'.ret = last'.args[2].id
               /\ heap' = heap
               /\ Has(pdfs'[last'.args[1]].parameters, last'.args[3])
               /\ Get(pdfs'[last'.args[1]].parameters, last'.args[3]) = last'.args[2].id)
      ]_vars

\* b.add_parameter(a.parameters.mean, 'sigma'): b's sigma is a's mean
C15_Witness ==
    /\ last.op = "add_parameter" /\ last.args[1] = 2
    /\ last.args[2] = SpecVar(Get(pdfs[1].parameters, S_mean))
    /\ Has(pdfs[2].parameters, S_sigma)
    /\ Get(pdfs[2].parameters, S_sigma) = Get(pdfs[1].parameters, S_mean)
    /\ heap[Get(pdfs[2].parameters, S_sigma)].name = S_a \o Underscore \o S_mean

\* C16: add_parameter(spec, logical_name) of a spec that is accepted and is
\* no variable yet, without final_name, makes a variable named
\* <pdf.name>_<logical_name>, stores it as parameters[logical_name] and
\* records that name as parameter_names[logical_name]; also for lists of
\* three and four elements.
C16_NamespacedName ==
    last.op = "add_parameter" /\ last.raised = NoError
        /\ last.args[2].t # "RooRealVar" =>
        LET self == pdfs[last.args[1]]
            logical_name == last.args[3]
            name == self.name \o Underscore \o logical_name
        IN  /\ Has(self.parameters, logical_name)
            /\ Get(self.parameters, logical_name) = last.ret
            /\ heap[last.ret].name = name
            /\ Get(self.parameter_names, logical_name) = name

\* the numbers of a list or tuple
Numbers(items) == {items[i].n : i \in {j \in 1..Len(items) : items[j].t = "num"}}

\* C17: create_roo_variable of a sequence of three elements takes it as
\* (name, min, max) when the first element is a string, and otherwise
\* sorts the three numbers and takes them as min < value < max.
C17_TripleByFirstElement ==
    last.op = "create_roo_variable" /\ last.args[1].t \in {"list", "tuple"}
        /\ Len(last.args[1].items) = 3 =>
        LET items == last.args[1].items
        IN  /\ last.raised = NoError
            /\ IF items[1].t = "str"
               THEN /\ heap[last.ret].name = items[1].s
                    /\ heap[last.ret].min = items[2].n
                    /\ heap[last.ret].max = items[3].n
               ELSE /\ heap[last.ret].min < heap[last.ret].val
                    /\ heap[last.ret].val < heap[last.ret].max
                    /\ {heap[last.ret].min, heap[last.ret].val, heap[last.ret].max}
                           = Numbers(items)

\* a list of two numbers, of a name and two numbers or of a name and three
\* numbers, the numbers all different
AcceptedList(var) ==
    /\ var.t = "list"
    /\ Len(var.items) \in {2, 3, 4}
    /\ \A i \in 1..Len(var.items) :
           var.items[i].t = IF Len(var.items) > 2 /\ i = 1 THEN "str" ELSE "num"
    /\ Cardinality(Numbers(var.items)) = IF Len(var.items) = 2 THEN 2
                                         ELSE Len(var.items) - 1

\* C18: the variable create_roo_variable makes of an accepted list, its
\* numbers in any order, has min < max and min <= value <= max; of a list
\* of two numbers the value is the midpoint and the name is not the
\* list's, and of the longer lists the name is the first element.
C18_BoundsOrdered ==
    last.op = "create_roo_variable" /\ AcceptedList(last.args[1])
        /\ last.raised = NoError =>
        LET items == last.args[1].items
            var == heap[last.ret]
        IN  /\ var.min < var.max
            /\ var.min <= var.val /\ var.val <= var.max
            /\ Len(items) = 2 =>
                   2 * var.val = var.min + var.max /\ var.name = last.args[2].name.s
            /\ Len(items) > 2 => var.name = items[1].s

\* a list or tuple of a length other than 2, 3 and 4
Malformed(var) == var.t \in {"list", "tuple"} /\ Len(var.items) \notin {2, 3, 4}

\* C19: create_roo_variable, add_parameter and add_observable of a list or
\* tuple whose length is not 2, 3 or 4 raise an error, and no variable is
\* created and no map of any PDF is changed.
C19_MalformedRefused ==
    [][(\/ last'.op = "create_roo_variable" /\ Malformed(last'.args[1])
        \/ last'.op \in {"add_parameter", "add_observable"}
               /\ Malformed(last'.args[2])) =>
          (last'.raised # NoError /\ heap' = heap /\ pdfs' = pdfs)]_vars

(***************************************************************************)
(* refit and plot without data                                             *)
(***************************************************************************)
\* C20: while no fit has set last_data, plot without data and refit end
\* with an error; nothing is drawn and no variable is changed, also by
\* refit(randomize=True).
C20_NoDataNoEffect ==
    [][(last'.op \in {"plot", "refit"} /\ pdfs[last'.args[1]].last_data = NoData
          /\ (last'.op = "plot" => ~last'.args[2])) =>
          /\ heap' = heap
          /\ IF last'.op = "plot"
             THEN last'.ret.error /\ last'.ret.plots = 0
             ELSE last'.raised # NoError]_vars

(***************************************************************************)
(* Randomizing                                                             *)
(***************************************************************************)
\* the parameter named key is one randomize_pdf(exceptions, only) works on
Selected(key, exceptions, only) ==
    /\ only.given => key \in Range(only.items)
    /\ ~(exceptions.given /\ key \in Range(exceptions.items))

ValidData(self, df) ==
    ~df.list \/
    /\ \A t \in 1..Len(df.tuples) : df.tuples[t] # <<>>
    /\ \A i \in 1..Len(self.sim_pdfs) :
           Cardinality({<<t, k>> \in (1..Len(df.tuples)) \X (1..Len(self.sim_pdfs)) :
               k <= Len(df.tuples[t]) /\ df.tuples[t][k] = self.sim_pdfs[i]}) = 1

\* C22: SimFit.get_fit_data, given one shared table or a list of
\* (PDF..., table) tuples that deals every PDF one table, does not fail and
\* imports exactly one sub-dataset per component PDF, keyed by the PDF's
\* name, so that no category is left without one.
C22_OneDatasetPerCategory ==
    (last.op = "get_fit_data" /\ ValidData(pdfs[last.args[1]], last.args[2])) =>
        LET self == pdfs[last.args[1]]
        IN  /\ last.raised = NoError
            /\ Len(last.ret) = Len(self.sim_pdfs)
            /\ {last.ret[i].name : i \in 1..Len(last.ret)} = Range(self.pdf_names)

(***************************************************************************)
(* Shared variables                                                        *)
(***************************************************************************)
Composites == {c \in PdfIds : pdfs[c].cls \in {"ProdPdf", "SimFit", "AddPdf"}}
Components(c) == Values(pdfs[c].pdfs) \cup Range(pdfs[c].sim_pdfs)

\* what a PDF reads for the parameter it holds under key
Read(pdf, key) ==
    LET var == heap[Get(pdfs[pdf].parameters, key)]
    IN  [val |-> var.val, err |-> var.err, min |-> var.min, max |-> var.max,
         constant |-> var.constant]

\* C23: a composite holds the parameters of its components as the same
\* objects: whatever fix, constrain, narrow, randomize_pdf, set_parameter
\* or fit did, through the component or through the composite, both read
\* the same value, error, bounds and constant flag, and none of these
\* operations makes a PDF hold another variable than before.
C23_SharedVariable ==
    /\ [](\A c \in Composites : \A p \in Components(c) :
            \A key \in KeySet(pdfs[p].parameters) :
                /\ Has(pdfs[c].parameters, key)
                /\ Get(pdfs[c].parameters, key) = Get(pdfs[p].parameters, key)
                /\ Read(c, key) = Read(p, key))
    /\ [][\A p \in PdfIds : pdfs'[p].parameters = pdfs[p].parameters]_vars

\* set_parameter through the composite gave mean its upper bound as value
\* and an error; fix through the component then froze it: both read that
C23_Witness ==
    /\ last.op = "fix" /\ last.args = <<1, 1>>
    /\ Read(2, S_mean) = [val |-> Mid.n, err |-> 1, min |-> Lwb.n, max |-> Mid.n,
                          constant |-> TRUE]
    /\ Read(1, S_mean) = Read(2, S_mean)

(***************************************************************************)
(* The native Sum                                                          *)
(***************************************************************************)
\* C24: whenever AddPdf.init_pdf has run (construction, add,
\* constrain_norm), the native Sum is built from two lists of equal length:
\* the components' native PDFs in insertion order, each exactly once, and at
\* the same position the yield of that component.
C24_ParallelLists ==
    \A s \in Sums :
        LET self == pdfs[s]
            native == self.roo_pdf
        IN  /\ native.cls = "RooAddPdf"
            /\ Len(native.pdfs) = Len(self.pdfs)
            /\ Len(native.norms) = Len(native.pdfs)
            /\ \A i \in 1..Len(self.pdfs) :
                   /\ native.pdfs[i] = self.pdfs[i].v
                   /\ Has(self.norms, self.pdfs[i].k)
                   /\ native.norms[i] = Get(self.norms, self.pdfs[i].k)
            /\ \A i, j \in 1..Len(native.pdfs) : native.pdfs[i] = native.pdfs[j] => i = j

(***************************************************************************)
(* The caller's ignore_n on retries                                        *)
(***************************************************************************)
\* C25: a call of check_convergence with ignore_n=False scans the yield
\* parameters (names containing 'n_') after every refit as it does in the
\* first scan: it returns True only when the error of every parameter the
\* caller's arguments select, yields included, lies inside the limits.
C25_IgnoreNOnRetries ==
    (cc.pc = "returned" /\ cc.ret /\ ~cc.call.ignore_n) =>
        \A p \in Scanned(pdfs[cc.pdf], cc.call) :
            LET e == ScanError(pdfs[cc.pdf], cc.call, p)
            IN  cc.call.err_lim_low < e /\ e < cc.call.err_lim_high

(***************************************************************************)
(* Constant parameters and randomization                                   *)
(***************************************************************************)
\* C26: a parameter that is marked constant keeps its value when
\* randomize_pdf runs, by itself or inside refit(randomize=True) and the
\* retries of check_convergence.
C26_ConstantKeepsValue ==
    [][last'.op \in {"randomize_pdf", "refit", "check_convergence"} =>
          \A i \in HeapIds : heap[i].constant => heap'[i].val = heap[i].val]_vars

(***************************************************************************)
(* Rebuilding a Sum                                                        *)
(***************************************************************************)
\* the components of Sum s, other than the one a constrain_norm in this
\* step is for, that have a yield
OtherYields(s) ==
    KeySet(pdfs[s].norms)
        \ (KeySet(pdfs'[s].external_norms) \ KeySet(pdfs[s].external_norms))

C28_NormsMatchPdfs ==
    \A s \in Sums :
        /\ KeySet(pdfs[s].norms) = KeySet(pdfs[s].pdfs)
        /\ \A c \in KeySet(pdfs[s].pdfs) :
               /\ Has(pdfs[s].parameters, N_ \o c)
               /\ Get(pdfs[s].parameters, N_ \o c) = Get(pdfs[s].norms, c)

(***************************************************************************)
(* fix_norm with every combination of arguments                            *)
(***************************************************************************)
\* C29: for every component of the Sum, with n given or omitted and
\* set_error False, True or a number, fix_norm completes and the component's
\* yield is constant afterwards; when n is omitted its value is unchanged.
C29_FixNormCompletes ==
    [][(last'.op = "fix_norm"
          /\ Has(pdfs[last'.args[1]].pdfs, pdfs[last'.args[2]].name)) =>
          LET self == pdfs[last'.args[1]]
              c == pdfs[last'.args[2]].name
          IN  /\ last'.raised = NoError
              /\ Has(self.norms, c)
              /\ heap'[Get(self.norms, c)].constant
              /\ (last'.args[3] = PyNone =>
                     heap'[Get(self.norms, c)].val = heap[Get(self.norms, c)].val)]_vars

(***************************************************************************)
(* last_data after a fit                                                   *)
(***************************************************************************)
\* C30: once fit has run on a PDF, also when init_pdf ran it during the
\* construction of a KernelDensity that was given data, last_data is set
\* and stays set, so that plot() without data finds it and draws.
C30_LastDataAfterFit ==
    /\ \A p \in PdfIds :
           pdfs[p].roo_pdf.cls = "RooKeysPdf" => pdfs[p].last_data # NoData
    /\ (last.op = "plot" /\ ~last.args[2]
           /\ pdfs[last.args[1]].roo_pdf.cls = "RooKeysPdf") => ~last.ret.error

====
